---- MODULE Spec2Model ----
(***************************************************************************)
(* The mock Mesh GraphQL API: the resolvers of the server (order,          *)
(* orders, stats, addOrders) over the static order store mockOrders.       *)
(*                                                                         *)
(* JavaScript values.  An order field or a filter value is a JS string or  *)
(* a JS number.  A string is modelled as the sequence of its UTF-16 code   *)
(* units ("10" is <<49, 48>>), a number as the one-element sequence of a   *)
(* natural number, each tagged with its typeof, so that ===, <, >, <= and  *)
(* >= can be modelled with the coercions ECMAScript gives them.            *)
(***************************************************************************)
EXTENDS Integers, Sequences, FiniteSets, TLC

VARIABLES store, request, response

vars == <<store, request, response>>

------------------------------------------------------------------------------
(* Bounds of the model. *)

\* Longest store drawn by Init of Spec.
MaxStore == 3
\* Longest filter list of an orders request.
MaxFilters == 2
\* Longest sort list of an orders request.
MaxSorts == 2
\* Largest limit of an orders request (the smallest is -1).
MaxLimit == 4
\* Longest order list of an addOrders request.
MaxOrders == 3
\* Clients with a request in flight at the same time, in SpecConcurrent.
NumClients == 2
\* ToNumber saturates here: every number a request carries is far below it,
\* so a comparison against a saturated value has the answer of the exact one.
NumberCap == 1000000

------------------------------------------------------------------------------
(* JS values and operators. *)

Str(s) == [t |-> "string", v |-> s]
Num(n) == [t |-> "number", v |-> <<n>>]

Min(a, b) == IF a < b THEN a ELSE b

\* Code-unit comparison of two strings, the string branch of ECMAScript's
\* Abstract Relational Comparison: the strings are compared at the first
\* position where they differ, and a proper prefix is smaller.
StrLess(s, u) ==
    LET n == Min(Len(s), Len(u))
    IN  IF \A i \in 1..n : s[i] = u[i] THEN Len(s) < Len(u)
        ELSE LET k == CHOOSE i \in 1..n :
                          s[i] # u[i] /\ \A j \in 1..(i - 1) : s[j] = u[j]
             IN  s[k] < u[k]

IsDecDigit(c) == c \in 48..57
IsHexDigit(c) == c \in (48..57) \cup (97..102) \cup (65..70)
HexDigit(c) == IF c \in 48..57 THEN c - 48 ELSE IF c \in 97..102 THEN c - 87 ELSE c - 55

\* The value of a digit string in the given base, digit by digit from the
\* left, saturating at NumberCap.
RECURSIVE DigitsFrom(_, _, _, _)
DigitsFrom(s, i, base, acc) ==
    IF i > Len(s) \/ acc >= NumberCap THEN Min(NumberCap, acc)
    ELSE DigitsFrom(s, i + 1, base, acc * base + HexDigit(s[i]))

\* Leading zeros add nothing to the value.
DigitsValue(s, base) ==
    IF \A i \in 1..Len(s) : s[i] = 48 THEN 0
    ELSE LET k == CHOOSE i \in 1..Len(s) :
                      s[i] # 48 /\ \A j \in 1..(i - 1) : s[j] = 48
         IN  DigitsFrom(s, k, base, 0)

\* ToNumber: a number is itself and undefined is NaN; the empty string is 0,
\* a decimal literal its value, a 0x literal its hexadecimal value, any other
\* string NaN.  (Strings
\* with white space, a sign, a fraction or an exponent are outside the
\* alphabet of the model.)
ToNumber(x) ==
    IF x.t = "number" THEN [nan |-> FALSE, n |-> x.v[1]]
    ELSE IF x.t = "undefined" THEN [nan |-> TRUE, n |-> 0]
    ELSE IF \A i \in 1..Len(x.v) : IsDecDigit(x.v[i])
         THEN [nan |-> FALSE, n |-> DigitsValue(x.v, 10)]
    ELSE IF /\ Len(x.v) > 2
            /\ x.v[1] = 48
            /\ x.v[2] \in {120, 88}
            /\ \A i \in 3..Len(x.v) : IsHexDigit(x.v[i])
         THEN [nan |-> FALSE, n |-> DigitsValue(SubSeq(x.v, 3, Len(x.v)), 16)]
    ELSE [nan |-> TRUE, n |-> 0]

\* Abstract Relational Comparison x < y: "true", "false" or "undefined".
\* Two strings are compared by code units; otherwise both sides go through
\* ToNumber and a NaN makes the result undefined.
AbstractLess(x, y) ==
    IF x.t = "string" /\ y.t = "string"
    THEN IF StrLess(x.v, y.v) THEN "true" ELSE "false"
    ELSE LET nx == ToNumber(x)
             ny == ToNumber(y)
         IN  IF nx.nan \/ ny.nan THEN "undefined"
             ELSE IF nx.n < ny.n THEN "true" ELSE "false"

\* The JS operators the resolvers apply to order[field] and filter.value.
StrictEquals(x, y) == x.t = y.t /\ x.v = y.v
Less(x, y) == AbstractLess(x, y) = "true"
Greater(x, y) == AbstractLess(y, x) = "true"
LessOrEqual(x, y) == AbstractLess(y, x) = "false"
GreaterOrEqual(x, y) == AbstractLess(x, y) = "false"

\* The value of a property no order has.
Undefined == [t |-> "undefined", v |-> <<>>]

\* order[field]
Prop(order, field) == IF field \in DOMAIN order THEN order[field] ELSE Undefined

------------------------------------------------------------------------------
(* The schema's enums. *)

FilterKind ==
    {"EQUAL", "NOT_EQUAL", "GREATER", "GREATER_OR_EQUAL", "LESS", "LESS_OR_EQUAL"}

SortDirection == {"ASC", "DESC"}

\* OrderFilter.kind and OrderSort.direction are nullable in the schema: a
\* request that leaves one out reaches the resolver with a kind or a
\* direction that no case of its switch recognizes.
NullEnum == "null"

------------------------------------------------------------------------------
(* ordersResolver: the filter predicates. *)

\* filterPredicate with the operators of GREATER and LESS exchanged.
filterPredicate_exchanged(filter, order) ==
    LET x == Prop(order, filter.field)
        v == filter.value
    IN  CASE filter.kind = "EQUAL" -> StrictEquals(x, v)
          [] filter.kind = "NOT_EQUAL" -> ~StrictEquals(x, v)
          [] filter.kind = "GREATER" -> Less(x, v)
          [] filter.kind = "GREATER_OR_EQUAL" -> GreaterOrEqual(x, v)
          [] filter.kind = "LESS" -> Greater(x, v)
          [] filter.kind = "LESS_OR_EQUAL" -> LessOrEqual(x, v)

\* The predicate the switch over filter.kind returns, applied to an order.
filterPredicate(filter, order) ==
    LET x == Prop(order, filter.field)
        v == filter.value
    IN  CASE filter.kind = "EQUAL" -> StrictEquals(x, v)
          [] filter.kind = "NOT_EQUAL" -> ~StrictEquals(x, v)
          [] filter.kind = "GREATER" -> Greater(x, v)
          [] filter.kind = "GREATER_OR_EQUAL" -> GreaterOrEqual(x, v)
          [] filter.kind = "LESS" -> Less(x, v)
          [] filter.kind = "LESS_OR_EQUAL" -> LessOrEqual(x, v)

\* allPass as R.anyPass: some predicate of the list holds.
allPass_anyPass(filters, order) ==
    \E i \in 1..Len(filters) : filterPredicate(filters[i], order)

\* allPass that lets the last predicate of the list decide.
allPass_lastDecides(filters, order) ==
    filters = <<>> \/ filterPredicate(filters[Len(filters)], order)

\* R.allPass(filters): every predicate of the list holds.
allPass(filters, order) ==
    \A i \in 1..Len(filters) : filterPredicate(filters[i], order)

\* R.filter(R.allPass(filters)): the orders of the list that pass, in the
\* order of the list.
filter(filters, list) ==
    LET pass(order) == allPass(filters, order)
    IN  SelectSeq(list, pass)

------------------------------------------------------------------------------
(* ordersResolver: the comparators. *)

\* ascend with the two results exchanged.
ascend_exchanged(field, a, b) ==
    LET aa == Prop(a, field)
        bb == Prop(b, field)
    IN  IF Less(aa, bb) THEN 1 ELSE IF Greater(aa, bb) THEN -1 ELSE 0

\* R.ascend(order => order[field])
ascend(field, a, b) ==
    LET aa == Prop(a, field)
        bb == Prop(b, field)
    IN  IF Less(aa, bb) THEN -1 ELSE IF Greater(aa, bb) THEN 1 ELSE 0

\* descend that compares as ascend does.
descend_asAscend(field, a, b) ==
    LET aa == Prop(a, field)
        bb == Prop(b, field)
    IN  IF Less(aa, bb) THEN -1 ELSE IF Greater(aa, bb) THEN 1 ELSE 0

\* R.descend(order => order[field])
descend(field, a, b) ==
    LET aa == Prop(a, field)
        bb == Prop(b, field)
    IN  IF Greater(aa, bb) THEN -1 ELSE IF Less(aa, bb) THEN 1 ELSE 0

\* The comparator the switch over sort.direction returns.
sorter(sort, a, b) ==
    CASE sort.direction = "ASC" -> ascend(sort.field, a, b)
      [] sort.direction = "DESC" -> descend(sort.field, a, b)

\* sortWithComparator that consults the first comparator only.
sortWithComparator_firstOnly(sorters, a, b) ==
    IF sorters = <<>> THEN 0 ELSE sorter(Head(sorters), a, b)

\* The comparator R.sortWith hands to Array.prototype.sort: the result of the
\* first comparator of the list that is not 0, and 0 when there is none.
RECURSIVE sortWithComparator(_, _, _)
sortWithComparator(sorters, a, b) ==
    IF sorters = <<>> THEN 0
    ELSE LET result == sorter(Head(sorters), a, b)
         IN  IF result # 0 THEN result
             ELSE sortWithComparator(Tail(sorters), a, b)

\* insertSorted of a sort that is not stable: x goes before the orders it
\* ties with.
insertSorted_beforeTies(sorters, sorted, x) ==
    LET smaller == {j \in 1..Len(sorted) : sortWithComparator(sorters, sorted[j], x) < 0}
        p == IF smaller = {} THEN 0
             ELSE CHOOSE j \in smaller : \A i \in smaller : i <= j
    IN  SubSeq(sorted, 1, p) \o <<x>> \o SubSeq(sorted, p + 1, Len(sorted))

\* One step of the sort: x goes right behind the last order of the sorted
\* part that does not compare greater than x.
insertSorted(sorters, sorted, x) ==
    LET notGreater == {j \in 1..Len(sorted) : sortWithComparator(sorters, sorted[j], x) <= 0}
        p == IF notGreater = {} THEN 0
             ELSE CHOOSE j \in notGreater : \A i \in notGreater : i <= j
    IN  SubSeq(sorted, 1, p) \o <<x>> \o SubSeq(sorted, p + 1, Len(sorted))

\* R.sortWith(sorters): a copy of the list sorted by Array.prototype.sort,
\* which ECMAScript 2019 requires to be stable.
RECURSIVE sortWith(_, _)
sortWith(sorters, list) ==
    IF list = <<>> THEN <<>>
    ELSE insertSorted(sorters,
                      sortWith(sorters, SubSeq(list, 1, Len(list) - 1)),
                      list[Len(list)])

\* take that keeps one element too many.
take_oneMore(n, list) ==
    IF n < 0 THEN list ELSE SubSeq(list, 1, Min(n + 1, Len(list)))

\* take that keeps one element too few.
take_oneLess(n, list) ==
    IF n < 0 THEN list ELSE SubSeq(list, 1, Min(n - 1, Len(list)))

\* R.take(n): slice(0, n < 0 ? Infinity : n)
take(n, list) ==
    IF n < 0 THEN list ELSE SubSeq(list, 1, Min(n, Len(list)))

------------------------------------------------------------------------------
(* The resolvers. *)

Ok(value) == [status |-> "ok", value |-> value, message |-> <<>>]
Error(what, value) == [status |-> "error", value |-> <<>>, message |-> <<what, value>>]

\* find with the arguments of R.propEq exchanged: no order has a property of
\* the name of the hash, so nothing is found.
find_exchanged(hash, list) == Undefined

\* R.find(R.propEq("hash", hash)): the first order of the list with that
\* hash, undefined when there is none.
find(hash, list) ==
    LET hit(i) == StrictEquals(Prop(list[i], "hash"), hash)
    IN  IF \A i \in 1..Len(list) : ~hit(i) THEN Undefined
        ELSE list[CHOOSE i \in 1..Len(list) : hit(i) /\ \A j \in 1..(i - 1) : ~hit(j)]

\* orderResolver that throws when no order has the hash.
orderResolver_throwsWhenAbsent(args, orders) ==
    IF \A i \in 1..Len(orders) : ~StrictEquals(Prop(orders[i], "hash"), args.hash)
    THEN Error("order not found", args.hash)
    ELSE Ok(find(args.hash, orders))

\* orderResolver: R.find(R.propEq("hash", args.hash), mockOrders)
orderResolver(args, orders) == Ok(find(args.hash, orders))

\* args.filters.map(...) throws at the first filter of an unexpected kind:
\* its position in the list, 0 when every kind is expected.
firstBadFilter(filters) ==
    LET bad(i) == filters[i].kind \notin FilterKind
    IN  IF \A i \in 1..Len(filters) : ~bad(i) THEN 0
        ELSE CHOOSE i \in 1..Len(filters) : bad(i) /\ \A j \in 1..(i - 1) : ~bad(j)

\* args.sort.map(...) throws at the first sort of an unexpected direction.
firstBadSort(sort) ==
    LET bad(i) == sort[i].direction \notin SortDirection
    IN  IF \A i \in 1..Len(sort) : ~bad(i) THEN 0
        ELSE CHOOSE i \in 1..Len(sort) : bad(i) /\ \A j \in 1..(i - 1) : ~bad(j)

\* pipe with R.take before R.sortWith.
pipe_takeFirst(args, orders) ==
    sortWith(args.sort, take(args.limit, filter(args.filters, orders)))

\* pipe that rebuilds each order with the remaining amount addOrdersResolver
\* writes.
pipe_rebuildsOrders(args, orders) ==
    LET list == take(args.limit, sortWith(args.sort, filter(args.filters, orders)))
    IN  [i \in 1..Len(list) |->
            [list[i] EXCEPT !.remainingFillableTakerAssetAmount
                                = Str(<<49, 53, 48, 48, 48, 48>>)]]

\* R.pipe(R.filter(R.allPass(filters)), R.sortWith(sorters), R.take(limit))
pipe(args, orders) == take(args.limit, sortWith(args.sort, filter(args.filters, orders)))

\* ordersResolver that builds a filter only when an order is there to be
\* filtered and the limit lets an order through.
ordersResolver_lazyFilters(args, orders) ==
    IF orders = <<>> \/ args.limit = 0
    THEN Ok(<<>>)
    ELSE IF firstBadFilter(args.filters) # 0
    THEN Error("unexpected filter kind",
               args.filters[firstBadFilter(args.filters)].kind)
    ELSE IF firstBadSort(args.sort) # 0
    THEN Error("unexpected sort direction",
               args.sort[firstBadSort(args.sort)].direction)
    ELSE Ok(pipe(args, orders))

\* ordersResolver that builds a sorter only when two orders are there to be
\* compared.
ordersResolver_lazySorters(args, orders) ==
    IF firstBadFilter(args.filters) # 0
    THEN Error("unexpected filter kind",
               args.filters[firstBadFilter(args.filters)].kind)
    ELSE IF Len(filter(args.filters, orders)) < 2
    THEN Ok(take(args.limit, filter(args.filters, orders)))
    ELSE IF firstBadSort(args.sort) # 0
    THEN Error("unexpected sort direction",
               args.sort[firstBadSort(args.sort)].direction)
    ELSE Ok(pipe(args, orders))

\* ordersResolver that builds the sorters before the filters.
ordersResolver_sortersFirst(args, orders) ==
    IF firstBadSort(args.sort) # 0
    THEN Error("unexpected sort direction",
               args.sort[firstBadSort(args.sort)].direction)
    ELSE IF firstBadFilter(args.filters) # 0
    THEN Error("unexpected filter kind",
               args.filters[firstBadFilter(args.filters)].kind)
    ELSE Ok(pipe(args, orders))

\* ordersResolver
ordersResolver(args, orders) ==
    IF firstBadFilter(args.filters) # 0
    THEN Error("unexpected filter kind",
               args.filters[firstBadFilter(args.filters)].kind)
    ELSE IF firstBadSort(args.sort) # 0
    THEN Error("unexpected sort direction",
               args.sort[firstBadSort(args.sort)].direction)
    ELSE Ok(pipe(args, orders))

-------------------------------------------------------------------------------
(* The schema's boundary: the fields a filter or a sort may name. *)

\* enum OrderField
OrderField ==
    {"hash", "chainId", "exchangeAddress", "makerAddress", "makerAssetData",
     "makerAssetAmount", "makerFeeAssetData", "makerFee", "takerAddress",
     "takerAssetData", "takerAssetAmount", "takerFeeAssetData", "takerFee",
     "senderAddress", "feeRecipientAddress", "expirationTimeSeconds", "salt",
     "remainingFillableTakerAssetAmount"}

\* The first field of the filters, then of the sorts, that is no OrderField;
\* "" when every field is one.
firstBadField(args) ==
    LET fields == [i \in 1..(Len(args.filters) + Len(args.sort)) |->
                       IF i <= Len(args.filters)
                       THEN args.filters[i].field
                       ELSE args.sort[i - Len(args.filters)].field]
        bad(i) == fields[i] \notin OrderField
    IN  IF \A i \in DOMAIN fields : ~bad(i) THEN ""
        ELSE fields[CHOOSE i \in DOMAIN fields : bad(i) /\ \A j \in 1..(i - 1) : ~bad(j)]

\* Query.orders without the schema's check of the fields.
Query_orders_unvalidated(args, orders) == ordersResolver(args, orders)

\* Query.orders: a request whose arguments do not fit the schema is answered
\* with an error before the resolver is called.
Query_orders(args, orders) ==
    IF firstBadField(args) # ""
    THEN Error("value does not exist in OrderField enum", firstBadField(args))
    ELSE ordersResolver(args, orders)

-------------------------------------------------------------------------------
(* stats and addOrders. *)

\* statsResolver
statsResolver ==
    [version |->
         Str(<<100, 101, 118, 101, 108, 111, 112, 109, 101, 110, 116>>),
     pubSubTopic |->
         Str(<<47, 48, 120, 45, 111, 114, 100, 101, 114, 115, 47, 110, 101,
         116, 119, 111, 114, 107, 47, 49, 47, 118, 101, 114, 115, 105, 111,
         110, 47, 49>>),
     rendezvous |->
         Str(<<47, 48, 120, 45, 109, 101, 115, 104, 47, 110, 101, 116, 119,
         111, 114, 107, 47, 49, 47, 118, 101, 114, 115, 105, 111, 110, 47,
         49>>),
     peerID |->
         Str(<<49, 54, 85, 105, 117, 50, 72, 65, 109, 71, 120, 56, 90, 54,
         103, 100, 113, 53, 84, 53, 65, 81, 69, 53, 52, 71, 77, 116, 113, 68,
         104, 68, 70, 104, 105, 122, 121, 119, 84, 121, 49, 111, 50, 56, 78,
         74, 98, 65, 77, 77, 117, 109, 70>>),
     ethereumChainID |-> Num(1),
     latestBlock |->
         [number |-> Str(<<56, 50, 53, 51, 49, 53, 48>>),
          hash |->
              Str(<<48, 120, 56, 52, 97, 97, 97, 101, 56, 52, 49, 52, 55, 102,
              99, 52, 50, 102, 99, 55, 55, 98, 51, 51, 101, 50, 100, 51, 101,
              48, 53, 100, 56, 54, 50, 55, 50, 54, 54, 51, 55, 57, 50, 100,
              57, 99, 97, 99, 97, 97, 56, 100, 99, 56, 57, 102, 50, 48, 55,
              98, 52, 100, 48, 54, 52, 50>>)],
     numPeers |-> Num(18),
     numOrders |-> Num(1095),
     numOrdersIncludingRemoved |-> Num(1134),
     startOfCurrentUTCDay |->
         Str(<<50, 48, 50, 48, 45, 48, 54, 45, 49, 57, 84, 48, 48, 58, 48, 48,
         58, 48, 48, 46, 48, 48, 48, 90>>),
     ethRPCRequestsSentInCurrentUTCDay |-> Num(5039),
     ethRPCRateLimitExpiredRequests |-> Num(0),
     maxExpirationTime |-> Str(<<55, 49, 55, 55, 56, 52, 54, 56, 48>>)]

\* The hash addOrdersResolver gives to every order.
addedHash ==
    Str(<<48, 120, 48, 54, 100, 49, 53, 52, 48, 51, 54, 51, 48, 98, 54, 100,
    56, 51, 102, 98, 97, 99, 98, 102, 48, 56, 54, 52, 101, 98, 55, 54, 99, 50,
    100, 98, 51, 100, 54, 101, 54, 102, 99, 56, 97, 100, 101, 99, 56, 97, 57,
    53, 102, 99, 53, 51, 54, 53, 57, 51, 102, 49, 55, 99, 53, 51>>)

\* R.splitEvery(n, list): the list cut into slices of length n, the last one
\* shorter when n does not divide the length.
splitEvery(n, list) ==
    [k \in 1..((Len(list) + n - 1) \div n) |->
        SubSeq(list, (k - 1) * n + 1, Min(k * n, Len(list)))]

\* acceptedOrders.map(...): { order: {...order, hash, remaining...}, isNew }
acceptedResult(order) ==
    [order |-> ("hash" :> addedHash
                @@ "remainingFillableTakerAssetAmount" :> Str(<<49, 53, 48, 48, 48, 48>>)
                @@ order),
     isNew |-> TRUE]

\* rejectedOrders.map(...): { hash, order, code, message }
rejectedResult(order) ==
    [hash |-> addedHash,
     order |-> order,
     code |-> "ETH_RPC_REQUEST_FAILED",
     message |->
         Str(<<110, 101, 116, 119, 111, 114, 107, 32, 114, 101, 113, 117, 101,
         115, 116, 32, 116, 111, 32, 69, 116, 104, 101, 114, 101, 117, 109,
         32, 82, 80, 67, 32, 101, 110, 100, 112, 111, 105, 110, 116, 32, 102,
         97, 105, 108, 101, 100>>)]

\* addOrdersResolver that splits the orders into a first and a second half.
addOrdersResolver_halves(args) ==
    LET half == (Len(args.orders) + 1) \div 2
        acceptedOrders == SubSeq(args.orders, 1, half)
        rejectedOrders == SubSeq(args.orders, half + 1, Len(args.orders))
    IN  [accepted |-> [i \in 1..Len(acceptedOrders) |-> acceptedResult(acceptedOrders[i])],
         rejected |-> [i \in 1..Len(rejectedOrders) |-> rejectedResult(rejectedOrders[i])]]

\* addOrdersResolver: const [acceptedOrders, rejectedOrders] = the first and
\* the second slice, each undefined when the slices end before it.
addOrdersResolver(args) ==
    LET slices == splitEvery(1, args.orders)
        isNull(k) == k > Len(slices)
    IN  [accepted |->
             IF isNull(1) THEN <<>>
             ELSE [i \in 1..Len(slices[1]) |-> acceptedResult(slices[1][i])],
         rejected |->
             IF isNull(2) THEN <<>>
             ELSE [i \in 1..Len(slices[2]) |-> rejectedResult(slices[2][i])]]

\* mockOrders: the 40 orders of src/mock_orders.ts, in the order of the file.
\* Each string is spelled as its code units; the comment above a record is
\* its hash.
mockOrders ==
    <<
    \* 1: 0x06d15403630b6d73fbacbf0864eb76c2db3d6e6fc8adec8a95fc536593f17c54
    [signature |-> Str(<<48,120,49,99,57,49,48,53,53,98,49,99,101,57,51,99,100,100,51,52,49,99,52,50,51,98,56,56,57,98,101,55,48,51,99,101,52,51,54,101,50,53,102,101,54,50,100,57,52,97,97,98,98,97,101,57,55,53,50,56,98,52,100,50,52,55,54,52,54,99,51,99,100,51,97,50,48,102,48,53,54,54,53,52,48,97,99,53,54,54,56,51,51,54,100,49,52,55,100,56,52,52,99,102,49,97,55,55,49,53,100,55,48,48,102,49,97,55,99,51,101,55,50,102,49,99,54,48,101,50,49,53,48,50>>),
      senderAddress |-> Str(<<48,120,48,48,48,48,48,48,48,48,48,48,48,48,48,48,48,48,48,48,48,48,48,48,48,48,48,48,48,48,48,48,48,48,48,48,48,48,48,48,48,48>>),
      makerAddress |-> Str(<<48,120,100,57,54,53,97,52,102,56,102,53,98,52,57,100,100,50,102,53,98,97,56,51,101,102,52,101,54,49,56,56,48,100,48,54,52,54,102,100,48,48>>),
      takerAddress |-> Str(<<48,120,48,48,48,48,48,48,48,48,48,48,48,48,48,48,48,48,48,48,48,48,48,48,48,48,48,48,48,48,48,48,48,48,48,48,48,48,48,48,48,48>>),
      makerFee |-> Str(<<49,50,53,48,48,48,48,48,48,48,48,48,48,48,48,48>>),
      takerFee |-> Str(<<48>>),
      makerAssetAmount |-> Str(<<53,48,48,48,48,48,48,48,48,48,48,48,48,48,48,48,48>>),
      takerAssetAmount |-> Str(<<49,48>>),
      makerAssetData |-> Str(<<48,120,102,52,55,50,54,49,98,48,48,48,48,48,48,48,48,48,48,48,48,48,48,48,48,48,48,48,48,48,48,48,48,48,99,48,50,97,97,97,51,57,98,50,50,51,102,101,56,100,48,97,48,101,53,99,52,102,50,55,101,97,100,57,48,56,51,99,55,53,54,99,99,50>>),
      takerAssetData |-> Str(<<48,120,97,55,99,98,53,102,98,55,48,48,48,48,48,48,48,48,48,48,48,48,48,48,48,48,48,48,48,48,48,48,48,48,100,52,54,57,48,97,53,49,48,52,52,100,98,55,55,100,57,49,100,55,97,97,56,102,55,97,51,97,53,97,100,53,100,97,51,51,49,97,102,48,48,48,48,48,48,48,48,48,48,48,48,48,48,48,48,48,48,48,48,48,48,48,48,48,48,48,48,48,48,48,48,48,48,48,48,48,48,48,48,48,48,48,48,48,48,48,48,48,48,48,48,48,48,48,48,48,48,48,48,48,48,48,56,48,48,48,48,48,48,48,48,48,48,48,48,48,48,48,48,48,48,48,48,48,48,48,48,48,48,48,48,48,48,48,48,48,48,48,48,48,48,48,48,48,48,48,48,48,48,48,48,48,48,48,48,48,48,48,48,48,48,48,48,48,48,48,97,48,48,48,48,48,48,48,48,48,48,48,48,48,48,48,48,48,48,48,48,48,48,48,48,48,48,48,48,48,48,48,48,48,48,48,48,48,48,48,48,48,48,48,48,48,48,48,48,48,48,48,48,48,48,48,48,48,48,48,48,48,48,48,101,48,48,48,48,48,48,48,48,48,48,48,48,48,48,48,48,48,48,48,48,48,48,48,48,48,48,48,48,48,48,48,48,48,48,48,48,48,48,48,48,48,48,48,48,48,48,48,48,48,48,48,48,48,48,48,48,48,48,48,48,48,48,48,48,48,48,48,48,48,48,48,48,48,48,48,48,48,48,48,48,48,48,48,48,48,48,48,48,48,48,48,48,48,48,48,48,48,48,48,48,48,48,48,48,48,48,48,48,48,48,48,48,48,48,48,48,48,48,48,48,48,48,48,48,48,48,48,48,49,48,48,48,48,48,48,48,48,48,48,48,48,48,48,48,48,48,48,48,48,48,48,48,48,48,48,48,48,48,48,48,48,48,48,48,48,48,48,48,48,48,48,48,48,48,48,48,48,48,48,48,48,48,48,48,48,48,48,48,48,48,48,48,49,48,48,48,48,48,48,48,48,48,48,48,48,48,48,48,48,48,48,48,48,48,48,48,48,48,48,48,48,48,48,48,48,48,48,48,48,48,48,48,48,48,48,48,48,48,48,48,48,48,48,48,48,48,48,48,48,48,48,48,48,48,48,99,48,48,48,48,48,48,48,48,48,48,48,48,48,48,48,48,48,48,48,48,48,48,48,48,48,48,101,51,97,50,97,49,102,50,49,52,54,100,56,54,97,54,48,52,97,100,99,50,50,48,98,52,57,54,55,97,56,57,56,100,55,102,101,48,55,48,48,48,48,48,48,48,48,48,48,48,48,48,48,48,48,48,48,48,48,48,48,48,48,48,57,97,51,55,57,101,102,55,50,49,56,98,99,102,100,56,57,49,51,102,97,97,56,98,50,56,49,101,98,99,53,97,50,101,48,98,99,48,52,48,48,48,48,48,48,48,48,48,48,48,48,48,48,48,48,48,48,48,48,48,48,48,48,48,48,48,48,48,48,48,48,48,48,48,48,48,48,48,48,48,48,48,48,48,48,48,48,48,48,48,48,48,48,48,48,48,48,48,48,48,48,54,48,48,48,48,48,48,48,48,48,48,48,48,48,48,48,48,48,48,48,48,48,48,48,48,48,48,48,48,48,48,48,48,48,48,48,48,48,48,48,48,48,48,48,48,48,48,48,48,48,48,48,48,48,48,48,48,48,48,48,48,48,48,48,52,48,48,48,48,48,48,48,48,48,48,48,48,48,48,48,48,48,48,48,48,48,48,48,48,48,48,48,48,48,48,48,48,48,48,48,48,48,48,48,48,48,48,48,48,48,48,48,48,48,48,48,48,48,48,48,48,48,48,48,48,48,48,49,51,54,48,48,48,48,48,48,48,48,48,48,48,48,48,48,48,48,48,48,48,48,48,48,48,48,48,48,48,48,48,48,48,48,48,48,48,48,48,48,48,48,48,48,48,48,48,48,48,48,48,48,48,48,48,48,48,48,48,48,48,48,48,48,48,52>>),
      salt |-> Str(<<49,53,56,52,55,57,54,57,49,55,54,57,56>>),
      exchangeAddress |-> Str(<<48,120,54,49,57,51,53,99,98,100,100,48,50,50,56,55,98,53,49,49,49,49,57,100,100,98,49,49,97,101,98,52,50,102,49,53,57,51,98,55,101,102>>),
      feeRecipientAddress |-> Str(<<48,120,48,100,48,53,54,98,98,49,55,97,100,52,100,102,53,53,57,51,98,57,51,97,49,101,102,99,50,57,99,98,51,53,98,97,52,97,97,51,56,100>>),
      expirationTimeSeconds |-> Str(<<49,53,57,53,49,54,52,57,49,55>>),
      makerFeeAssetData |-> Str(<<48,120,102,52,55,50,54,49,98,48,48,48,48,48,48,48,48,48,48,48,48,48,48,48,48,48,48,48,48,48,48,48,48,48,99,48,50,97,97,97,51,57,98,50,50,51,102,101,56,100,48,97,48,101,53,99,52,102,50,55,101,97,100,57,48,56,51,99,55,53,54,99,99,50>>),
      chainId |-> Num(1),
      takerFeeAssetData |-> Str(<<48,120>>),
      hash |-> Str(<<48,120,48,54,100,49,53,52,48,51,54,51,48,98,54,100,55,51,102,98,97,99,98,102,48,56,54,52,101,98,55,54,99,50,100,98,51,100,54,101,54,102,99,56,97,100,101,99,56,97,57,53,102,99,53,51,54,53,57,51,102,49,55,99,53,52>>),
      remainingFillableTakerAssetAmount |-> Str(<<49,48>>)],
    \* 2: 0x181af7476932a167bb95224a0cc0f627c422c49c2f0698bf7b1bf0525518fdf1
    [signature |-> Str(<<48,120,49,98,102,57,51,49,97,98,48,54,53,53,49,98,98,98,100,51,97,55,101,50,55,50,99,97,52,56,51,51,53,48,51,100,55,54,56,99,97,99,97,50,99,97,99,53,54,52,98,49,53,55,98,52,54,99,57,48,54,99,55,98,52,49,99,53,55,102,100,54,49,52,54,98,53,48,48,101,49,97,100,50,100,97,99,55,50,57,99,51,53,49,49,52,50,55,54,52,99,98,55,54,101,102,99,57,55,53,99,54,100,55,99,54,52,97,101,102,54,99,102,55,57,51,48,99,48,55,53,100,48,50>>),
      senderAddress |-> Str(<<48,120,48,48,48,48,48,48,48,48,48,48,48,48,48,48,48,48,48,48,48,48,48,48,48,48,48,48,48,48,48,48,48,48,48,48,48,48,48,48,48,48>>),
      makerAddress |-> Str(<<48,120,48,99,53,102,97,53,102,97,53,49,100,56,52,50,50,55,98,102,97,99,100,99,53,54,98,51,54,51,50,57,50,56,54,98,51,55,100,48,53,49>>),
      takerAddress |-> Str(<<48,120,48,48,48,48,48,48,48,48,48,48,48,48,48,48,48,48,48,48,48,48,48,48,48,48,48,48,48,48,48,48,48,48,48,48,48,48,48,48,48,48>>),
      makerFee |-> Str(<<48>>),
      takerFee |-> Str(<<48>>),
      makerAssetAmount |-> Str(<<53,48,57,49,49,48,48,48,48,48,48,48,48,48,48,48,48>>),
      takerAssetAmount |-> Str(<<49,48,48,48,48,48,48,48,48,48,48,48,48,48,48,48,48,48,48,48>>),
      makerAssetData |-> Str(<<48,120,102,52,55,50,54,49,98,48,48,48,48,48,48,48,48,48,48,48,48,48,48,48,48,48,48,48,48,48,48,48,48,48,99,48,50,97,97,97,51,57,98,50,50,51,102,101,56,100,48,97,48,101,53,99,52,102,50,55,101,97,100,57,48,56,51,99,55,53,54,99,99,50>>),
      takerAssetData |-> Str(<<48,120,102,52,55,50,54,49,98,48,48,48,48,48,48,48,48,48,48,48,48,48,48,48,48,48,48,48,48,48,48,48,48,48,53,56,98,54,97,56,97,51,51,48,50,51,54,57,100,97,101,99,51,56,51,51,51,52,54,55,50,52,48,52,101,101,55,51,51,97,98,50,51,57>>),
      salt |-> Str(<<49,53,57,48,50,52,52,55,48,50,52,54,49>>),
      exchangeAddress |-> Str(<<48,120,54,49,57,51,53,99,98,100,100,48,50,50,56,55,98,53,49,49,49,49,57,100,100,98,49,49,97,101,98,52,50,102,49,53,57,51,98,55,101,102>>),
      feeRecipientAddress |-> Str(<<48,120,97,50,53,56,98,51,57,57,53,52,99,101,102,53,99,98,49,52,50,102,100,53,54,55,97,52,54,99,100,100,98,51,49,97,54,55,48,49,50,52>>),
      expirationTimeSeconds |-> Str(<<49,53,57,50,54,54,51,55,57,50>>),
      makerFeeAssetData |-> Str(<<48,120>>),
      chainId |-> Num(1),
      takerFeeAssetData |-> Str(<<48,120>>),
      hash |-> Str(<<48,120,49,56,49,97,102,55,52,55,54,57,51,50,97,49,54,55,98,98,57,53,50,50,52,97,48,99,99,48,102,54,50,55,99,52,50,50,99,52,57,99,50,102,48,54,57,56,98,102,55,98,49,98,102,48,53,50,53,53,49,56,102,100,102,49>>),
      remainingFillableTakerAssetAmount |-> Str(<<49,48,48,48,48,48,48,48,48,48,48,48,48,48,48,48,48,48,48,48>>)],
    \* 3: 0x1c4277bd277bab56cece52d53533361fc5b90428bddfc52eac2c32f6881ba08d
    [signature |-> Str(<<48,120,49,98,101,55,49,101,98,49,51,57,55,48,102,53,102,52,50,56,56,52,51,98,54,52,98,54,57,55,49,51,50,99,52,57,56,98,102,102,57,57,100,56,55,56,101,98,52,57,54,101,49,98,102,99,49,54,49,54,100,51,101,97,100,99,56,54,50,102,54,50,50,99,101,102,56,100,56,55,54,54,101,102,53,101,55,49,56,48,53,48,53,97,102,55,50,51,101,100,97,53,57,48,99,55,100,57,102,53,56,48,98,49,57,99,52,56,53,52,56,56,100,99,51,51,102,102,56,48,53,52,48,50>>),
      senderAddress |-> Str(<<48,120,48,48,48,48,48,48,48,48,48,48,48,48,48,48,48,48,48,48,48,48,48,48,48,48,48,48,48,48,48,48,48,48,48,48,48,48,48,48,48,48>>),
      makerAddress |-> Str(<<48,120,57,56,57,57,98,101,97,97,100,56,100,101,100,48,52,48,50,99,51,57,49,52,56,97,102,100,100,48,51,56,53,48,100,102,101,50,57,102,100,97>>),
      takerAddress |-> Str(<<48,120,53,54,100,57,102,98,49,56,53,51,52,51,102,102,54,56,52,56,52,97,98,98,50,57,54,52,97,100,51,49,57,55,50,56,48,56,51,99,99,57>>),
      makerFee |-> Str(<<51,48,48,48,48>>),
      takerFee |-> Str(<<51,48,48,48,48>>),
      makerAssetAmount |-> Str(<<50,48,48,48,48,48,48>>),
      takerAssetAmount |-> Str(<<49>>),
      makerAssetData |-> Str(<<48,120,102,52,55,50,54,49,98,48,48,48,48,48,48,48,48,48,48,48,48,48,48,48,48,48,48,48,48,48,48,48,48,48,97,48,98,56,54,57,57,49,99,54,50,49,56,98,51,54,99,49,100,49,57,100,52,97,50,101,57,101,98,48,99,101,51,54,48,54,101,98,52,56>>),
      takerAssetData |-> Str(<<48,120,48,50,53,55,49,55,57,50,48,48,48,48,48,48,48,48,48,48,48,48,48,48,48,48,48,48,48,48,48,48,48,48,52,56,97,99,99,57,99,99,101,101,56,98,51,53,56,49,51,50,53,102,100,102,53,49,55,49,97,57,57,55,98,48,50,101,57,53,102,55,56,49,48,48,48,48,48,48,48,48,48,48,48,48,48,48,48,48,48,48,48,48,48,48,48,48,48,48,48,48,48,48,48,48,48,48,48,48,48,48,48,48,48,48,48,48,48,48,48,48,48,48,48,48,48,48,48,48,48,48,48,48,48,48,50,99>>),
      salt |-> Str(<<49,53,57,49,51,54,48,48,48,50,52,57,52>>),
      exchangeAddress |-> Str(<<48,120,54,49,57,51,53,99,98,100,100,48,50,50,56,55,98,53,49,49,49,49,57,100,100,98,49,49,97,101,98,52,50,102,49,53,57,51,98,55,101,102>>),
      feeRecipientAddress |-> Str(<<48,120,102,49,57,99,52,52,52,51,49,98,48,49,98,99,51,49,97,49,56,99,100,54,57,99,53,101,51,51,52,98,54,102,50,53,53,98,49,54,101,56>>),
      expirationTimeSeconds |-> Str(<<49,53,57,50,50,48,56,48,48,48,48,48,48>>),
      makerFeeAssetData |-> Str(<<48,120,102,52,55,50,54,49,98,48,48,48,48,48,48,48,48,48,48,48,48,48,48,48,48,48,48,48,48,48,48,48,48,48,97,48,98,56,54,57,57,49,99,54,50,49,56,98,51,54,99,49,100,49,57,100,52,97,50,101,57,101,98,48,99,101,51,54,48,54,101,98,52,56>>),
      chainId |-> Num(1),
      takerFeeAssetData |-> Str(<<48,120,102,52,55,50,54,49,98,48,48,48,48,48,48,48,48,48,48,48,48,48,48,48,48,48,48,48,48,48,48,48,48,48,97,48,98,56,54,57,57,49,99,54,50,49,56,98,51,54,99,49,100,49,57,100,52,97,50,101,57,101,98,48,99,101,51,54,48,54,101,98,52,56>>),
      hash |-> Str(<<48,120,49,99,52,50,55,55,98,100,50,55,55,98,97,98,53,54,99,101,99,101,53,50,100,53,51,53,51,51,51,54,49,102,99,53,98,57,48,52,50,56,98,100,100,102,99,53,50,101,97,99,50,99,51,50,102,54,56,56,49,98,97,48,56,100>>),
      remainingFillableTakerAssetAmount |-> Str(<<49>>)],
    \* 4: 0x27e9da9f835fd936e6409ccf562bd0fb6918874efeb85da37f57afc05998235f
    [signature |-> Str(<<48,120,49,98,101,50,57,49,56,51,49,100,49,52,100,98,102,100,100,102,48,98,99,56,102,55,99,50,98,50,48,56,53,99,55,51,55,56,54,52,98,55,50,50,98,49,53,55,51,54,99,55,49,56,100,57,53,48,52,102,55,101,52,55,55,102,97,101,50,50,49,48,101,99,55,101,101,56,57,51,54,98,56,56,100,53,48,99,102,57,54,97,99,100,98,53,101,56,57,97,48,98,56,55,54,55,98,50,50,48,49,53,56,102,49,48,97,101,100,51,51,52,52,56,49,56,54,101,52,101,97,52,48,50>>),
      senderAddress |-> Str(<<48,120,48,48,48,48,48,48,48,48,48,48,48,48,48,48,48,48,48,48,48,48,48,48,48,48,48,48,48,48,48,48,48,48,48,48,48,48,48,48,48,48>>),
      makerAddress |-> Str(<<48,120,97,49,55,56,53,51,50,54,101,56,50,101,52,50,56,48,51,55,55,49,97,97,57,101,98,99,101,57,57,48,49,102,55,51,55,98,100,97,57,55>>),
      takerAddress |-> Str(<<48,120,48,48,48,48,48,48,48,48,48,48,48,48,48,48,48,48,48,48,48,48,48,48,48,48,48,48,48,48,48,48,48,48,48,48,48,48,48,48,48,48>>),
      makerFee |-> Str(<<48>>),
      takerFee |-> Str(<<48>>),
      makerAssetAmount |-> Str(<<53,48,48,48,48,48,48,48,48,48,48,48,48,48,48,48,48,48,48>>),
      takerAssetAmount |-> Str(<<50,48,48,48,48,48,48,48,48,48,48,48,48,48,48,48,48,48>>),
      makerAssetData |-> Str(<<48,120,102,52,55,50,54,49,98,48,48,48,48,48,48,48,48,48,48,48,48,48,48,48,48,48,48,48,48,48,48,48,48,48,48,102,53,100,50,102,98,50,57,102,98,55,100,51,99,102,101,101,52,52,52,97,50,48,48,50,57,56,102,52,54,56,57,48,56,99,99,57,52,50>>),
      takerAssetData |-> Str(<<48,120,102,52,55,50,54,49,98,48,48,48,48,48,48,48,48,48,48,48,48,48,48,48,48,48,48,48,48,48,48,48,48,48,99,48,50,97,97,97,51,57,98,50,50,51,102,101,56,100,48,97,48,101,53,99,52,102,50,55,101,97,100,57,48,56,51,99,55,53,54,99,99,50>>),
      salt |-> Str(<<49,53,57,48,53,56,49,50,52,54,55,52,50>>),
      exchangeAddress |-> Str(<<48,120,54,49,57,51,53,99,98,100,100,48,50,50,56,55,98,53,49,49,49,49,57,100,100,98,49,49,97,101,98,52,50,102,49,53,57,51,98,55,101,102>>),
      feeRecipientAddress |-> Str(<<48,120,97,50,53,56,98,51,57,57,53,52,99,101,102,53,99,98,49,52,50,102,100,53,54,55,97,52,54,99,100,100,98,51,49,97,54,55,48,49,50,52>>),
      expirationTimeSeconds |-> Str(<<49,54,49,52,52,51,48,52,50,55>>),
      makerFeeAssetData |-> Str(<<48,120>>),
      chainId |-> Num(1),
      takerFeeAssetData |-> Str(<<48,120>>),
      hash |-> Str(<<48,120,50,55,101,57,100,97,57,102,56,51,53,102,100,57,51,54,101,54,52,48,57,99,99,102,53,54,50,98,100,48,102,98,54,57,49,56,56,55,52,101,102,101,98,56,53,100,97,51,55,102,53,55,97,102,99,48,53,57,57,56,50,51,53,102>>),
      remainingFillableTakerAssetAmount |-> Str(<<50,48,48,48,48,48,48,48,48,48,48,48,48,48,48,48,48,48>>)],
    \* 5: 0x2d8d646d62c0b934125c8cbc1fd663d09bc3938610a428680b6a683056e631f5
    [signature |-> Str(<<48,120,49,99,101,56,97,53,55,49,51,98,99,53,52,50,51,54,48,55,102,52,48,54,49,54,53,54,56,98,49,98,54,52,57,50,99,52,57,48,48,102,51,51,50,55,97,100,52,102,56,53,54,50,97,54,98,52,57,51,102,50,100,49,51,101,49,57,51,101,51,53,52,101,97,101,99,100,50,99,97,51,53,98,50,51,54,102,50,55,52,55,48,97,102,54,54,57,55,98,97,51,99,48,57,55,101,101,50,53,57,52,97,49,50,99,55,54,54,53,52,56,56,98,102,97,51,56,50,101,99,101,48,51>>),
      senderAddress |-> Str(<<48,120,48,48,48,48,48,48,48,48,48,48,48,48,48,48,48,48,48,48,48,48,48,48,48,48,48,48,48,48,48,48,48,48,48,48,48,48,48,48,48,48>>),
      makerAddress |-> Str(<<48,120,98,97,55,56,50,101,57,102,98,97,99,50,99,55,98,102,99,49,99,101,52,48,57,98,51,57,48,57,48,57,57,98,54,101,100,54,49,102,56,48>>),
      takerAddress |-> Str(<<48,120,48,48,48,48,48,48,48,48,48,48,48,48,48,48,48,48,48,48,48,48,48,48,48,48,48,48,48,48,48,48,48,48,48,48,48,48,48,48,48,48>>),
      makerFee |-> Str(<<48>>),
      takerFee |-> Str(<<48>>),
      makerAssetAmount |-> Str(<<49,54,56,53,51,57,49,51,51,55,52,56,51,55,48,48,48,48>>),
      takerAssetAmount |-> Str(<<50,49,56,56,56,49,57,57,49,56,56,49,48,48,48,48,48,48,48,48,48,48>>),
      makerAssetData |-> Str(<<48,120,102,52,55,50,54,49,98,48,48,48,48,48,48,48,48,48,48,48,48,48,48,48,48,48,48,48,48,48,48,48,48,48,99,48,50,97,97,97,51,57,98,50,50,51,102,101,56,100,48,97,48,101,53,99,52,102,50,55,101,97,100,57,48,56,51,99,55,53,54,99,99,50>>),
      takerAssetData |-> Str(<<48,120,102,52,55,50,54,49,98,48,48,48,48,48,48,48,48,48,48,48,48,48,48,48,48,48,48,48,48,48,48,48,48,48,52,102,98,98,51,53,48,48,53,50,98,99,97,53,52,49,55,53,54,54,102,49,56,56,101,98,50,101,98,99,101,53,98,49,57,98,99,57,54,52>>),
      salt |-> Str(<<52,50,56,49,50,52,53,56,51,48,55,52,53,54,51,52,52,50,51,53,49,55,55,54,51,53,49,50,57,55,50,56,49,53,49,52,56,57,52,49,55,57,56,49,57,48,54,56,55,52,57,51,56,51,49,57,53,55,54,54,49,52,51,48,50,56,51,51,56,56,50,49,56,48,53,51,51>>),
      exchangeAddress |-> Str(<<48,120,54,49,57,51,53,99,98,100,100,48,50,50,56,55,98,53,49,49,49,49,57,100,100,98,49,49,97,101,98,52,50,102,49,53,57,51,98,55,101,102>>),
      feeRecipientAddress |-> Str(<<48,120,99,56,57,56,102,98,101,101,49,99,99,57,52,99,48,102,102,48,55,55,102,97,97,53,52,52,57,57,49,53,97,53,48,54,101,102,102,51,56,52>>),
      expirationTimeSeconds |-> Str(<<49,53,57,56,55,51,51,52,50,57>>),
      makerFeeAssetData |-> Str(<<48,120>>),
      chainId |-> Num(1),
      takerFeeAssetData |-> Str(<<48,120>>),
      hash |-> Str(<<48,120,50,100,56,100,54,52,54,100,54,50,99,48,98,57,51,52,49,50,53,99,56,99,98,99,49,102,100,54,54,51,100,48,57,98,99,51,57,51,56,54,49,48,97,52,50,56,54,56,48,98,54,97,54,56,51,48,53,54,101,54,51,49,102,53>>),
      remainingFillableTakerAssetAmount |-> Str(<<50,49,56,56,56,49,57,57,49,56,56,49,48,48,48,48,48,48,48,48,48,48>>)],
    \* 6: 0x35bbc8a1d5d9cd37571a74fd64b26085b30dff8e5e7cd43854cfdbf8ff3cc44c
    [signature |-> Str(<<48,120,49,98,51,55,54,56,98,48,56,102,100,48,101,49,100,56,97,102,54,56,99,98,56,49,53,97,50,53,54,56,100,50,48,102,100,52,97,50,102,97,57,50,57,54,97,97,53,54,99,56,54,102,98,101,55,56,102,48,99,99,53,49,97,55,50,102,54,101,102,57,53,57,99,53,97,97,56,99,49,102,100,55,97,51,52,48,53,50,50,51,57,99,52,99,54,101,54,49,55,51,48,54,53,99,97,57,102,55,50,57,97,52,100,100,102,56,55,54,55,102,51,98,102,102,50,54,98,56,55,51,48,50>>),
      senderAddress |-> Str(<<48,120,48,48,48,48,48,48,48,48,48,48,48,48,48,48,48,48,48,48,48,48,48,48,48,48,48,48,48,48,48,48,48,48,48,48,48,48,48,48,48,48>>),
      makerAddress |-> Str(<<48,120,54,52,50,53,98,98,48,50,49,100,97,98,100,53,100,54,98,52,52,51,97,49,97,98,52,55,98,48,48,51,97,49,98,55,97,50,55,100,52,98>>),
      takerAddress |-> Str(<<48,120,48,48,48,48,48,48,48,48,48,48,48,48,48,48,48,48,48,48,48,48,48,48,48,48,48,48,48,48,48,48,48,48,48,48,48,48,48,48,48,48>>),
      makerFee |-> Str(<<48>>),
      takerFee |-> Str(<<48>>),
      makerAssetAmount |-> Str(<<49,50,54,48,48,57,56,57,57,57,57,53,51,51,56,52,57,48,48,48,48>>),
      takerAssetAmount |-> Str(<<49,51,50,57,57,57,57,50,51,55,57,48,48,48,48,48,48,48,48,48,48>>),
      makerAssetData |-> Str(<<48,120,102,52,55,50,54,49,98,48,48,48,48,48,48,48,48,48,48,48,48,48,48,48,48,48,48,48,48,48,48,48,48,48,54,98,49,55,53,52,55,52,101,56,57,48,57,52,99,52,52,100,97,57,56,98,57,53,52,101,101,100,101,97,99,52,57,53,50,55,49,100,48,102>>),
      takerAssetData |-> Str(<<48,120,102,52,55,50,54,49,98,48,48,48,48,48,48,48,48,48,48,48,48,48,48,48,48,48,48,48,48,48,48,48,48,48,99,48,49,49,97,55,51,101,101,56,53,55,54,102,98,52,54,102,53,101,49,99,53,55,53,49,99,97,51,98,57,102,101,48,97,102,50,97,54,102>>),
      salt |-> Str(<<49,53,57,50,52,50,54,56,51,52,50,51,53>>),
      exchangeAddress |-> Str(<<48,120,54,49,57,51,53,99,98,100,100,48,50,50,56,55,98,53,49,49,49,49,57,100,100,98,49,49,97,101,98,52,50,102,49,53,57,51,98,55,101,102>>),
      feeRecipientAddress |-> Str(<<48,120,49,48,48,48,48,48,48,48,48,48,48,48,48,48,48,48,48,48,48,48,48,48,48,48,48,48,48,48,48,48,48,48,48,48,48,48,48,48,49,49>>),
      expirationTimeSeconds |-> Str(<<49,53,57,50,52,50,55,52,51,52>>),
      makerFeeAssetData |-> Str(<<48,120>>),
      chainId |-> Num(1),
      takerFeeAssetData |-> Str(<<48,120>>),
      hash |-> Str(<<48,120,51,53,98,98,99,56,97,49,100,53,100,57,99,100,51,55,53,55,49,97,55,52,102,100,54,52,98,50,54,48,56,53,98,51,48,100,102,102,56,101,53,101,55,99,100,52,51,56,53,52,99,102,100,98,102,56,102,102,51,99,99,52,52,99>>),
      remainingFillableTakerAssetAmount |-> Str(<<49,51,50,57,57,57,57,50,51,55,57,48,48,48,48,48,48,48,48,48,48>>)],
    \* 7: 0x38c1b56f95bf168b303e4b62d64f7f475f2ac34124e9678f0bd852f95a4ca377
    [signature |-> Str(<<48,120,49,98,55,53,50,99,98,53,55,99,51,48,53,53,100,52,50,50,53,54,50,99,54,100,100,99,101,49,49,54,98,48,98,53,48,52,48,100,98,57,49,98,49,102,50,98,100,55,49,97,48,54,101,50,57,51,97,54,49,54,99,53,50,56,52,55,53,101,51,50,53,50,101,52,57,48,50,56,98,52,53,98,98,101,55,100,55,100,101,50,50,98,52,101,99,51,102,49,102,52,50,53,55,51,48,55,55,48,52,52,55,54,52,57,100,56,55,56,55,48,51,100,55,50,97,53,97,102,48,97,48,50>>),
      senderAddress |-> Str(<<48,120,48,48,48,48,48,48,48,48,48,48,48,48,48,48,48,48,48,48,48,48,48,48,48,48,48,48,48,48,48,48,48,48,48,48,48,48,48,48,48,48>>),
      makerAddress |-> Str(<<48,120,48,99,53,102,97,53,102,97,53,49,100,56,52,50,50,55,98,102,97,99,100,99,53,54,98,51,54,51,50,57,50,56,54,98,51,55,100,48,53,49>>),
      takerAddress |-> Str(<<48,120,48,48,48,48,48,48,48,48,48,48,48,48,48,48,48,48,48,48,48,48,48,48,48,48,48,48,48,48,48,48,48,48,48,48,48,48,48,48,48,48>>),
      makerFee |-> Str(<<48>>),
      takerFee |-> Str(<<48>>),
      makerAssetAmount |-> Str(<<51,54,54,48,48,48,48,48,48,48,48,48,48,48,48,48,48>>),
      takerAssetAmount |-> Str(<<51,48,48,48,48,48,48,48,48,48,48,48,48,48,48,48,48,48,48,48,48,48>>),
      makerAssetData |-> Str(<<48,120,102,52,55,50,54,49,98,48,48,48,48,48,48,48,48,48,48,48,48,48,48,48,48,48,48,48,48,48,48,48,48,48,99,48,50,97,97,97,51,57,98,50,50,51,102,101,56,100,48,97,48,101,53,99,52,102,50,55,101,97,100,57,48,56,51,99,55,53,54,99,99,50>>),
      takerAssetData |-> Str(<<48,120,102,52,55,50,54,49,98,48,48,48,48,48,48,48,48,48,48,48,48,48,48,48,48,48,48,48,48,48,48,48,48,48,48,102,53,100,50,102,98,50,57,102,98,55,100,51,99,102,101,101,52,52,52,97,50,48,48,50,57,56,102,52,54,56,57,48,56,99,99,57,52,50>>),
      salt |-> Str(<<49,53,56,57,50,56,48,56,52,52,52,49,50>>),
      exchangeAddress |-> Str(<<48,120,54,49,57,51,53,99,98,100,100,48,50,50,56,55,98,53,49,49,49,49,57,100,100,98,49,49,97,101,98,52,50,102,49,53,57,51,98,55,101,102>>),
      feeRecipientAddress |-> Str(<<48,120,97,50,53,56,98,51,57,57,53,52,99,101,102,53,99,98,49,52,50,102,100,53,54,55,97,52,54,99,100,100,98,51,49,97,54,55,48,49,50,52>>),
      expirationTimeSeconds |-> Str(<<49,54,49,51,49,51,48,55,53,54>>),
      makerFeeAssetData |-> Str(<<48,120>>),
      chainId |-> Num(1),
      takerFeeAssetData |-> Str(<<48,120>>),
      hash |-> Str(<<48,120,51,56,99,49,98,53,54,102,57,53,98,102,49,54,56,98,51,48,51,101,52,98,54,50,100,54,52,102,55,102,52,55,53,102,50,97,99,51,52,49,50,52,101,57,54,55,56,102,48,98,100,56,53,50,102,57,53,97,52,99,97,51,55,55>>),
      remainingFillableTakerAssetAmount |-> Str(<<51,48,48,48,48,48,48,48,48,48,48,48,48,48,48,48,48,48,48,48,48,48>>)],
    \* 8: 0x3ee7a5fad1a222532bead735049ea5f2c4b0b096efbe63bdf9a0299192f653e6
    [signature |-> Str(<<48,120,49,99,57,48,100,100,55,56,98,48,53,48,98,54,97,56,102,48,100,102,52,50,50,53,53,99,48,100,48,52,98,100,49,100,98,98,99,54,49,49,48,101,101,49,53,51,98,53,97,98,97,48,52,56,52,56,102,55,53,100,54,51,98,54,48,53,49,101,101,98,49,102,97,97,55,50,54,56,53,53,102,49,55,100,56,98,53,55,55,101,102,101,56,51,48,97,98,53,56,52,51,100,98,100,98,57,49,97,55,48,50,99,101,56,52,100,100,52,49,51,53,49,56,51,99,55,51,100,53,100,48,51>>),
      senderAddress |-> Str(<<48,120,48,48,48,48,48,48,48,48,48,48,48,48,48,48,48,48,48,48,48,48,48,48,48,48,48,48,48,48,48,48,48,48,48,48,48,48,48,48,48,48>>),
      makerAddress |-> Str(<<48,120,99,101,100,55,51,50,99,97,57,50,99,98,52,102,48,52,48,50,51,57,99,52,101,56,99,56,53,102,49,52,97,99,98,98,53,100,98,48,48,48>>),
      takerAddress |-> Str(<<48,120,48,48,48,48,48,48,48,48,48,48,48,48,48,48,48,48,48,48,48,48,48,48,48,48,48,48,48,48,48,48,48,48,48,48,48,48,48,48,48,48>>),
      makerFee |-> Str(<<48>>),
      takerFee |-> Str(<<48>>),
      makerAssetAmount |-> Str(<<49,49,57,49,48,48,48,48,48,48,48,48,48,53,56,48,48,48,48>>),
      takerAssetAmount |-> Str(<<51,53,57,56,49,56,55,51,49,49,49,56,48,48,48,48,48,48,48,48,48,48,48>>),
      makerAssetData |-> Str(<<48,120,102,52,55,50,54,49,98,48,48,48,48,48,48,48,48,48,48,48,48,48,48,48,48,48,48,48,48,48,48,48,48,48,99,48,50,97,97,97,51,57,98,50,50,51,102,101,56,100,48,97,48,101,53,99,52,102,50,55,101,97,100,57,48,56,51,99,55,53,54,99,99,50>>),
      takerAssetData |-> Str(<<48,120,102,52,55,50,54,49,98,48,48,48,48,48,48,48,48,48,48,48,48,48,48,48,48,48,48,48,48,48,48,48,48,48,101,52,49,100,50,52,56,57,53,55,49,100,51,50,50,49,56,57,50,52,54,100,97,102,97,53,101,98,100,101,49,102,52,54,57,57,102,52,57,56>>),
      salt |-> Str(<<49,53,57,49,55,49,55,49,56,53,56,53,49>>),
      exchangeAddress |-> Str(<<48,120,54,49,57,51,53,99,98,100,100,48,50,50,56,55,98,53,49,49,49,49,57,100,100,98,49,49,97,101,98,52,50,102,49,53,57,51,98,55,101,102>>),
      feeRecipientAddress |-> Str(<<48,120,97,50,53,56,98,51,57,57,53,52,99,101,102,53,99,98,49,52,50,102,100,53,54,55,97,52,54,99,100,100,98,51,49,97,54,55,48,49,50,52>>),
      expirationTimeSeconds |-> Str(<<49,53,57,52,51,48,57,49,54,51>>),
      makerFeeAssetData |-> Str(<<48,120>>),
      chainId |-> Num(1),
      takerFeeAssetData |-> Str(<<48,120>>),
      hash |-> Str(<<48,120,51,101,101,55,97,53,102,97,100,49,97,50,50,50,53,51,50,98,101,97,100,55,51,53,48,52,57,101,97,53,102,50,99,52,98,48,98,48,57,54,101,102,98,101,54,51,98,100,102,57,97,48,50,57,57,49,57,50,102,54,53,51,101,54>>),
      remainingFillableTakerAssetAmount |-> Str(<<51,53,57,56,49,56,55,51,49,49,49,56,48,48,48,48,48,48,48,48,48,48,48>>)],
    \* 9: 0x46fc0d204158be2c9bd9b9949f734d3c33d702bec7bdfe80ac527df3b88fab94
    [signature |-> Str(<<48,120,49,98,48,57,100,54,56,49,100,100,48,97,98,51,56,55,50,54,100,50,98,55,49,53,56,54,56,48,51,102,57,56,101,101,49,57,48,54,101,56,100,56,49,56,101,101,102,53,99,54,52,101,52,49,48,101,48,57,100,100,48,52,51,97,49,99,49,98,49,57,49,53,101,55,100,57,101,57,48,101,98,49,100,99,52,101,50,98,52,51,102,56,49,53,97,101,56,48,56,49,51,49,100,55,49,56,97,50,49,100,56,97,50,49,57,57,56,51,50,99,102,50,55,57,56,97,56,48,98,54,48,50>>),
      senderAddress |-> Str(<<48,120,48,48,48,48,48,48,48,48,48,48,48,48,48,48,48,48,48,48,48,48,48,48,48,48,48,48,48,48,48,48,48,48,48,48,48,48,48,48,48,48>>),
      makerAddress |-> Str(<<48,120,56,99,101,48,101,49,100,101,100,53,51,51,56,55,98,98,100,56,52,99,100,48,99,48,49,49,49,52,99,100,55,101,97,101,100,98,53,97,49,49>>),
      takerAddress |-> Str(<<48,120,48,48,48,48,48,48,48,48,48,48,48,48,48,48,48,48,48,48,48,48,48,48,48,48,48,48,48,48,48,48,48,48,48,48,48,48,48,48,48,48>>),
      makerFee |-> Str(<<48>>),
      takerFee |-> Str(<<49,50,54,48,48,48,48,48,48,48,48,48,48,48,48,48>>),
      makerAssetAmount |-> Str(<<54,51,48,48,48,48,48,48,48,48,48,48,48,48,48,48,48,48>>),
      takerAssetAmount |-> Str(<<53,48,48,48,48,48,48,48,48,48,48,48,48,48,48,48,48,48,48,48,48>>),
      makerAssetData |-> Str(<<48,120,102,52,55,50,54,49,98,48,48,48,48,48,48,48,48,48,48,48,48,48,48,48,48,48,48,48,48,48,48,48,48,48,99,48,50,97,97,97,51,57,98,50,50,51,102,101,56,100,48,97,48,101,53,99,52,102,50,55,101,97,100,57,48,56,51,99,55,53,54,99,99,50>>),
      takerAssetData |-> Str(<<48,120,102,52,55,50,54,49,98,48,48,48,48,48,48,48,48,48,48,48,48,48,48,48,48,48,48,48,48,48,48,48,48,48,101,52,49,100,50,52,56,57,53,55,49,100,51,50,50,49,56,57,50,52,54,100,97,102,97,53,101,98,100,101,49,102,52,54,57,57,102,52,57,56>>),
      salt |-> Str(<<49,53,57,50,50,50,57,49,49,48,49,56,55>>),
      exchangeAddress |-> Str(<<48,120,54,49,57,51,53,99,98,100,100,48,50,50,56,55,98,53,49,49,49,49,57,100,100,98,49,49,97,101,98,52,50,102,49,53,57,51,98,55,101,102>>),
      feeRecipientAddress |-> Str(<<48,120,49,48,97,97,56,99,56,50,101,51,54,53,54,49,55,48,98,97,97,101,56,48,100,49,56,57,98,56,98,55,100,99,101,97,54,56,54,53,99,57>>),
      expirationTimeSeconds |-> Str(<<49,54,48,52,51,50,53,49,49,48>>),
      makerFeeAssetData |-> Str(<<48,120>>),
      chainId |-> Num(1),
      takerFeeAssetData |-> Str(<<48,120,102,52,55,50,54,49,98,48,48,48,48,48,48,48,48,48,48,48,48,48,48,48,48,48,48,48,48,48,48,48,48,48,99,48,50,97,97,97,51,57,98,50,50,51,102,101,56,100,48,97,48,101,53,99,52,102,50,55,101,97,100,57,48,56,51,99,55,53,54,99,99,50>>),
      hash |-> Str(<<48,120,52,54,102,99,48,100,50,48,52,49,53,56,98,101,50,99,57,98,100,57,98,57,57,52,57,102,55,51,52,100,51,99,51,51,100,55,48,50,98,101,99,55,98,100,102,101,56,48,97,99,53,50,55,100,102,51,98,56,56,102,97,98,57,52>>),
      remainingFillableTakerAssetAmount |-> Str(<<53,48,48,48,48,48,48,48,48,48,48,48,48,48,48,48,48,48,48,48,48>>)],
    \* 10: 0x48182738c01c3d7435dc0ad07a467ac9f15c5bfb91ddb3d3fe4f0c4cbd2ec3cd
    [signature |-> Str(<<48,120,49,98,49,100,55,54,97,49,57,54,99,55,50,52,55,51,56,48,98,97,98,51,98,97,102,99,102,56,100,54,53,52,100,55,102,99,51,51,100,53,54,102,97,51,55,49,55,51,53,102,56,53,55,50,102,101,55,57,102,54,56,50,101,56,56,101,52,55,50,56,50,56,100,97,50,99,97,102,55,100,102,54,51,99,54,49,54,99,56,54,57,102,54,56,51,102,55,54,98,57,99,56,99,102,98,97,57,101,50,54,51,98,54,51,49,102,50,55,102,48,100,99,49,57,52,101,49,100,52,97,48,50>>),
      senderAddress |-> Str(<<48,120,48,48,48,48,48,48,48,48,48,48,48,48,48,48,48,48,48,48,48,48,48,48,48,48,48,48,48,48,48,48,48,48,48,48,48,48,48,48,48,48>>),
      makerAddress |-> Str(<<48,120,57,49,53,99,55,56,49,100,56,52,54,52,98,98,48,53,55,99,50,52,99,53,101,101,55,99,53,97,97,97,51,56,55,97,53,52,52,97,98,49>>),
      takerAddress |-> Str(<<48,120,48,48,48,48,48,48,48,48,48,48,48,48,48,48,48,48,48,48,48,48,48,48,48,48,48,48,48,48,48,48,48,48,48,48,48,48,48,48,48,48>>),
      makerFee |-> Str(<<48>>),
      takerFee |-> Str(<<53,50,53,48,48,48,48,48,48,48,48,48,48,48,48>>),
      makerAssetAmount |-> Str(<<49,48,48,48,48,48,48,48,48,48,48,48,48,48,48,48>>),
      takerAssetAmount |-> Str(<<50,49,48,48,48,48,48,48,48,48,48,48,48,48,48,48,48,48>>),
      makerAssetData |-> Str(<<48,120,102,52,55,50,54,49,98,48,48,48,48,48,48,48,48,48,48,48,48,48,48,48,48,48,48,48,48,48,48,48,48,48,99,48,50,97,97,97,51,57,98,50,50,51,102,101,56,100,48,97,48,101,53,99,52,102,50,55,101,97,100,57,48,56,51,99,55,53,54,99,99,50>>),
      takerAssetData |-> Str(<<48,120,102,52,55,50,54,49,98,48,48,48,48,48,48,48,48,48,48,48,48,48,48,48,48,48,48,48,48,48,48,48,48,48,52,99,51,50,55,52,55,49,99,52,52,98,50,100,97,99,100,54,101,57,48,53,50,53,102,57,100,54,50,57,98,100,50,101,52,102,54,54,50,99>>),
      salt |-> Str(<<50,52,52,51,48,51,53,48,49,53,52,48,57,48,49,49,52,50,50,50,49,48,54,54,55,51,57,52,48,57,57,53,52,51,52,56,48,56,51,57,48,52,50,52,55,52,48,52,57,53,57,52,48,51,53,52,55,56,53,48,51,49,52,52,54,54,48,53,49,56,48,54,55,48,52,49,57>>),
      exchangeAddress |-> Str(<<48,120,54,49,57,51,53,99,98,100,100,48,50,50,56,55,98,53,49,49,49,49,57,100,100,98,49,49,97,101,98,52,50,102,49,53,57,51,98,55,101,102>>),
      feeRecipientAddress |-> Str(<<48,120,54,56,97,49,55,98,53,56,55,99,97,102,52,102,57,51,50,57,102,48,101,51,55,50,101,51,97,55,56,100,50,51,97,52,54,100,101,54,98,53>>),
      expirationTimeSeconds |-> Str(<<49,53,57,52,49,57,53,54,52,50>>),
      makerFeeAssetData |-> Str(<<48,120>>),
      chainId |-> Num(1),
      takerFeeAssetData |-> Str(<<48,120,102,52,55,50,54,49,98,48,48,48,48,48,48,48,48,48,48,48,48,48,48,48,48,48,48,48,48,48,48,48,48,48,52,99,51,50,55,52,55,49,99,52,52,98,50,100,97,99,100,54,101,57,48,53,50,53,102,57,100,54,50,57,98,100,50,101,52,102,54,54,50,99>>),
      hash |-> Str(<<48,120,52,56,49,56,50,55,51,56,99,48,49,99,51,100,55,52,51,53,100,99,48,97,100,48,55,97,52,54,55,97,99,57,102,49,53,99,53,98,102,98,57,49,100,100,98,51,100,51,102,101,52,102,48,99,52,99,98,100,50,101,99,51,99,100>>),
      remainingFillableTakerAssetAmount |-> Str(<<50,49,48,48,48,48,48,48,48,48,48,48,48,48,48,48,48,48>>)],
    \* 11: 0x4b8de5549b1dd67756deef8289ec763b548068395a1212f48aad45c7d258500d
    [signature |-> Str(<<48,120,49,99,97,98,54,53,57,52,51,98,102,102,100,48,54,53,57,50,48,53,97,100,102,51,49,55,100,56,53,101,57,56,53,49,49,55,97,49,54,102,54,54,53,98,51,57,51,55,98,55,51,100,100,48,102,50,51,51,54,101,100,57,56,97,99,102,50,100,50,99,57,98,54,55,53,98,102,52,54,52,55,101,49,52,98,57,57,100,54,49,52,51,49,57,100,50,97,54,52,98,51,52,101,53,55,49,51,52,51,53,53,54,53,101,54,52,56,52,53,48,48,99,48,52,55,55,54,97,53,98,48,50>>),
      senderAddress |-> Str(<<48,120,48,48,48,48,48,48,48,48,48,48,48,48,48,48,48,48,48,48,48,48,48,48,48,48,48,48,48,48,48,48,48,48,48,48,48,48,48,48,48,48>>),
      makerAddress |-> Str(<<48,120,51,53,57,49,100,50,54,49,100,97,57,99,97,49,57,100,56,51,100,101,53,48,50,56,100,52,99,97,97,48,50,102,50,50,97,97,102,57,101,101>>),
      takerAddress |-> Str(<<48,120,48,48,48,48,48,48,48,48,48,48,48,48,48,48,48,48,48,48,48,48,48,48,48,48,48,48,48,48,48,48,48,48,48,48,48,48,48,48,48,48>>),
      makerFee |-> Str(<<48>>),
      takerFee |-> Str(<<48>>),
      makerAssetAmount |-> Str(<<55,55,48,48,48,48,48,48,48,48,48,48,48,48,48,48>>),
      takerAssetAmount |-> Str(<<49,48,48,48,48,48,48,48,48>>),
      makerAssetData |-> Str(<<48,120,102,52,55,50,54,49,98,48,48,48,48,48,48,48,48,48,48,48,48,48,48,48,48,48,48,48,48,48,48,48,48,48,99,48,50,97,97,97,51,57,98,50,50,51,102,101,56,100,48,97,48,101,53,99,52,102,50,55,101,97,100,57,48,56,51,99,55,53,54,99,99,50>>),
      takerAssetData |-> Str(<<48,120,102,52,55,50,54,49,98,48,48,48,48,48,48,48,48,48,48,48,48,48,48,48,48,48,48,48,48,48,48,48,48,48,97,48,98,56,54,57,57,49,99,54,50,49,56,98,51,54,99,49,100,49,57,100,52,97,50,101,57,101,98,48,99,101,51,54,48,54,101,98,52,56>>),
      salt |-> Str(<<49,53,56,53,52,48,52,52,52,48,51,48,54>>),
      exchangeAddress |-> Str(<<48,120,54,49,57,51,53,99,98,100,100,48,50,50,56,55,98,53,49,49,49,49,57,100,100,98,49,49,97,101,98,52,50,102,49,53,57,51,98,55,101,102>>),
      feeRecipientAddress |-> Str(<<48,120,97,50,53,56,98,51,57,57,53,52,99,101,102,53,99,98,49,52,50,102,100,53,54,55,97,52,54,99,100,100,98,51,49,97,54,55,48,49,50,52>>),
      expirationTimeSeconds |-> Str(<<49,53,57,56,54,50,51,54,51,57>>),
      makerFeeAssetData |-> Str(<<48,120>>),
      chainId |-> Num(1),
      takerFeeAssetData |-> Str(<<48,120>>),
      hash |-> Str(<<48,120,52,98,56,100,101,53,53,52,57,98,49,100,100,54,55,55,53,54,100,101,101,102,56,50,56,57,101,99,55,54,51,98,53,52,56,48,54,56,51,57,53,97,49,50,49,50,102,52,56,97,97,100,52,53,99,55,100,50,53,56,53,48,48,100>>),
      remainingFillableTakerAssetAmount |-> Str(<<49,48,48,48,48,48,48,48,48>>)],
    \* 12: 0x55849b27be97e6cc990f34ebe23e8f79e5be29ea9614a20dd90d9f4a987d81a5
    [signature |-> Str(<<48,120,49,98,56,56,50,50,100,55,101,50,57,56,57,50,50,98,55,51,49,50,102,101,49,57,52,56,99,100,56,51,53,50,50,97,52,101,49,53,51,97,48,55,51,48,99,48,55,54,54,49,52,100,101,53,102,99,101,99,98,56,102,99,50,49,51,101,49,99,51,100,99,55,55,57,100,48,57,54,48,51,55,102,52,54,53,100,97,53,98,101,98,49,49,101,99,49,49,98,56,102,52,98,97,54,57,52,57,99,50,51,49,100,55,55,50,102,52,51,54,53,51,102,98,100,56,50,53,56,48,51,48,50>>),
      senderAddress |-> Str(<<48,120,48,48,48,48,48,48,48,48,48,48,48,48,48,48,48,48,48,48,48,48,48,48,48,48,48,48,48,48,48,48,48,48,48,48,48,48,48,48,48,48>>),
      makerAddress |-> Str(<<48,120,98,55,99,51,99,57,101,55,102,57,100,56,101,98,50,48,98,48,102,52,100,98,55,52,55,50,56,97,54,100,52,102,54,56,56,49,101,98,51,55>>),
      takerAddress |-> Str(<<48,120,48,48,48,48,48,48,48,48,48,48,48,48,48,48,48,48,48,48,48,48,48,48,48,48,48,48,48,48,48,48,48,48,48,48,48,48,48,48,48,48>>),
      makerFee |-> Str(<<48>>),
      takerFee |-> Str(<<56,50,55,55,53,48,48,48,48,48,48,48,48,48,48,48>>),
      makerAssetAmount |-> Str(<<53,53,48,48,48,48,48,48,48,48,48,48,48,48,48,48,48,48,48,48,48>>),
      takerAssetAmount |-> Str(<<52,49,51,56,55,53,48,48,48,48,48,48,48,48,48,48,48,48,48>>),
      makerAssetData |-> Str(<<48,120,102,52,55,50,54,49,98,48,48,48,48,48,48,48,48,48,48,48,48,48,48,48,48,48,48,48,48,48,48,48,48,48,52,99,51,50,55,52,55,49,99,52,52,98,50,100,97,99,100,54,101,57,48,53,50,53,102,57,100,54,50,57,98,100,50,101,52,102,54,54,50,99>>),
      takerAssetData |-> Str(<<48,120,102,52,55,50,54,49,98,48,48,48,48,48,48,48,48,48,48,48,48,48,48,48,48,48,48,48,48,48,48,48,48,48,99,48,50,97,97,97,51,57,98,50,50,51,102,101,56,100,48,97,48,101,53,99,52,102,50,55,101,97,100,57,48,56,51,99,55,53,54,99,99,50>>),
      salt |-> Str(<<49,53,57,50,51,51,53,50,51,52,50,49,54>>),
      exchangeAddress |-> Str(<<48,120,54,49,57,51,53,99,98,100,100,48,50,50,56,55,98,53,49,49,49,49,57,100,100,98,49,49,97,101,98,52,50,102,49,53,57,51,98,55,101,102>>),
      feeRecipientAddress |-> Str(<<48,120,49,48,97,97,56,99,56,50,101,51,54,53,54,49,55,48,98,97,97,101,56,48,100,49,56,57,98,56,98,55,100,99,101,97,54,56,54,53,99,57>>),
      expirationTimeSeconds |-> Str(<<49,54,48,52,52,51,49,50,51,52>>),
      makerFeeAssetData |-> Str(<<48,120>>),
      chainId |-> Num(1),
      takerFeeAssetData |-> Str(<<48,120,102,52,55,50,54,49,98,48,48,48,48,48,48,48,48,48,48,48,48,48,48,48,48,48,48,48,48,48,48,48,48,48,99,48,50,97,97,97,51,57,98,50,50,51,102,101,56,100,48,97,48,101,53,99,52,102,50,55,101,97,100,57,48,56,51,99,55,53,54,99,99,50>>),
      hash |-> Str(<<48,120,53,53,56,52,57,98,50,55,98,101,57,55,101,54,99,99,57,57,48,102,51,52,101,98,101,50,51,101,56,102,55,57,101,53,98,101,50,57,101,97,57,54,49,52,97,50,48,100,100,57,48,100,57,102,52,97,57,56,55,100,56,49,97,53>>),
      remainingFillableTakerAssetAmount |-> Str(<<52,49,51,56,55,53,48,48,48,48,48,48,48,48,48,48,48,48,48>>)],
    \* 13: 0x583203c46d07990799ca784bc2dfa98a0bb3e0d0418399515ae7d766281c54f0
    [signature |-> Str(<<48,120,49,99,51,101,53,52,51,57,48,57,56,48,52,49,99,53,54,102,49,51,54,56,54,101,53,52,57,51,97,56,50,52,49,54,52,102,99,53,57,102,56,98,51,97,48,48,52,55,50,100,53,50,55,50,99,52,52,102,97,52,55,98,98,57,48,98,50,98,49,54,54,49,102,49,57,51,102,102,100,102,54,57,56,48,54,57,56,48,99,51,50,55,54,98,99,100,102,52,49,56,50,101,98,100,100,57,98,102,98,57,55,98,102,57,99,52,52,50,51,101,49,99,100,57,101,99,98,48,53,99,48,50>>),
      senderAddress |-> Str(<<48,120,48,48,48,48,48,48,48,48,48,48,48,48,48,48,48,48,48,48,48,48,48,48,48,48,48,48,48,48,48,48,48,48,48,48,48,48,48,48,48,48>>),
      makerAddress |-> Str(<<48,120,53,53,54,100,53,57,51,57,53,52,53,57,51,99,55,49,54,54,56,98,50,51,99,99,98,55,52,52,100,50,56,57,99,53,100,99,56,99,53,48>>),
      takerAddress |-> Str(<<48,120,48,48,48,48,48,48,48,48,48,48,48,48,48,48,48,48,48,48,48,48,48,48,48,48,48,48,48,48,48,48,48,48,48,48,48,48,48,48,48,48>>),
      makerFee |-> Str(<<48>>),
      takerFee |-> Str(<<52,52,56,52,52,55,50,53,52,50,56,56,50,51,51>>),
      makerAssetAmount |-> Str(<<50,48,48,48,48,48,48,48,48,48,48,48,48,48,48,48,48,48,48>>),
      takerAssetAmount |-> Str(<<49,55,57,51,55,56,57,48,49,55,49,53,50,57,51,51,49,53>>),
      makerAssetData |-> Str(<<48,120,102,52,55,50,54,49,98,48,48,48,48,48,48,48,48,48,48,48,48,48,48,48,48,48,48,48,48,48,48,48,48,48,101,52,56,57,55,50,102,99,100,56,50,97,50,55,52,52,49,49,99,48,49,56,51,52,101,50,102,48,51,49,100,52,51,55,55,102,97,50,99,48>>),
      takerAssetData |-> Str(<<48,120,102,52,55,50,54,49,98,48,48,48,48,48,48,48,48,48,48,48,48,48,48,48,48,48,48,48,48,48,48,48,48,48,54,98,49,55,53,52,55,52,101,56,57,48,57,52,99,52,52,100,97,57,56,98,57,53,52,101,101,100,101,97,99,52,57,53,50,55,49,100,48,102>>),
      salt |-> Str(<<54,53,55,56,53,48,55,48,50,54,53,50,49,52,57,53,51,51,54,53,51,54,49,52,56,54,54,56,51,50,54,50,57,51,56,56,55,50,53,48,49,56,48,54,50,48,54,48,57,53,49,55,51,51,49,50,56,56,57,56,48,50,55,57,57,55,56,56,55,50,53,51,57,51,49,57,49>>),
      exchangeAddress |-> Str(<<48,120,54,49,57,51,53,99,98,100,100,48,50,50,56,55,98,53,49,49,49,49,57,100,100,98,49,49,97,101,98,52,50,102,49,53,57,51,98,55,101,102>>),
      feeRecipientAddress |-> Str(<<48,120,54,56,97,49,55,98,53,56,55,99,97,102,52,102,57,51,50,57,102,48,101,51,55,50,101,51,97,55,56,100,50,51,97,52,54,100,101,54,98,53>>),
      expirationTimeSeconds |-> Str(<<49,53,57,50,55,51,53,51,50,55>>),
      makerFeeAssetData |-> Str(<<48,120>>),
      chainId |-> Num(1),
      takerFeeAssetData |-> Str(<<48,120,102,52,55,50,54,49,98,48,48,48,48,48,48,48,48,48,48,48,48,48,48,48,48,48,48,48,48,48,48,48,48,48,54,98,49,55,53,52,55,52,101,56,57,48,57,52,99,52,52,100,97,57,56,98,57,53,52,101,101,100,101,97,99,52,57,53,50,55,49,100,48,102>>),
      hash |-> Str(<<48,120,53,56,51,50,48,51,99,52,54,100,48,55,57,57,48,55,57,57,99,97,55,56,52,98,99,50,100,102,97,57,56,97,48,98,98,51,101,48,100,48,52,49,56,51,57,57,53,49,53,97,101,55,100,55,54,54,50,56,49,99,53,52,102,48>>),
      remainingFillableTakerAssetAmount |-> Str(<<49,55,57,51,55,56,57,48,49,55,49,53,50,57,51,51,49,53>>)],
    \* 14: 0x5a0746910c6a8a4730878e6e8a4abb328844c0b58f0cdfbb5b6ad28ee0bae347
    [signature |-> Str(<<48,120,49,98,100,102,52,52,56,51,50,101,48,102,49,102,53,100,54,52,49,57,99,100,102,100,99,97,53,99,55,52,51,97,48,57,50,100,101,99,50,53,101,97,49,52,57,54,100,99,50,50,51,100,50,97,50,52,52,49,102,55,99,48,57,57,102,48,54,100,99,52,51,101,102,102,98,51,101,97,100,55,100,50,48,51,56,50,51,52,100,55,56,101,99,101,53,97,50,97,55,97,49,97,99,97,98,54,102,102,52,49,51,56,102,100,57,51,53,48,102,57,101,101,49,101,51,49,55,48,52,102,48,50>>),
      senderAddress |-> Str(<<48,120,48,48,48,48,48,48,48,48,48,48,48,48,48,48,48,48,48,48,48,48,48,48,48,48,48,48,48,48,48,48,48,48,48,48,48,48,48,48,48,48>>),
      makerAddress |-> Str(<<48,120,48,54,97,54,98,54,53,100,57,51,99,100,100,53,48,50,54,55,50,57,57,55,51,100,56,51,53,55,49,54,98,97,48,52,53,48,98,48,48,50>>),
      takerAddress |-> Str(<<48,120,48,48,48,48,48,48,48,48,48,48,48,48,48,48,48,48,48,48,48,48,48,48,48,48,48,48,48,48,48,48,48,48,48,48,48,48,48,48,48,48>>),
      makerFee |-> Str(<<48>>),
      takerFee |-> Str(<<48>>),
      makerAssetAmount |-> Str(<<49,53,48,48,48,48,48,48,48,48,48,48>>),
      takerAssetAmount |-> Str(<<52,53,48,48,48,48,48,48,48,48,48,48,48,48,48,48,48,48>>),
      makerAssetData |-> Str(<<48,120,102,52,55,50,54,49,98,48,48,48,48,48,48,48,48,48,48,48,48,48,48,48,48,48,48,48,48,48,48,48,48,48,48,52,49,102,101,56,100,102,56,98,52,97,97,97,56,54,56,57,52,49,101,98,56,55,55,57,53,50,102,49,55,98,97,98,101,53,55,100,97,53>>),
      takerAssetData |-> Str(<<48,120,102,52,55,50,54,49,98,48,48,48,48,48,48,48,48,48,48,48,48,48,48,48,48,48,48,48,48,48,48,48,48,48,99,48,50,97,97,97,51,57,98,50,50,51,102,101,56,100,48,97,48,101,53,99,52,102,50,55,101,97,100,57,48,56,51,99,55,53,54,99,99,50>>),
      salt |-> Str(<<52,48,53,53,56,48,54,55,48,55,53,50,53,48,53,50,51,52,56,50,55,54,53,52,49,51,54,48,53,51,55,50,57,56,48,52,49,57,57,54,49,56,49,54,57,51,50,50,57,51,50,50,54,57,50,52,50,51,57,52,54,51,54,48,48,50,53,51,56,50,57,53,51,53,52,50,53>>),
      exchangeAddress |-> Str(<<48,120,54,49,57,51,53,99,98,100,100,48,50,50,56,55,98,53,49,49,49,49,57,100,100,98,49,49,97,101,98,52,50,102,49,53,57,51,98,55,101,102>>),
      feeRecipientAddress |-> Str(<<48,120,52,53,50,52,98,97,97,57,56,102,57,97,51,98,57,100,101,99,53,55,99,97,97,101,55,54,51,51,57,51,54,101,102,57,54,98,100,55,48,56>>),
      expirationTimeSeconds |-> Str(<<49,54,49,50,57,52,54,49,49,51>>),
      makerFeeAssetData |-> Str(<<48,120>>),
      chainId |-> Num(1),
      takerFeeAssetData |-> Str(<<48,120>>),
      hash |-> Str(<<48,120,53,97,48,55,52,54,57,49,48,99,54,97,56,97,52,55,51,48,56,55,56,101,54,101,56,97,52,97,98,98,51,50,56,56,52,52,99,48,98,53,56,102,48,99,100,102,98,98,53,98,54,97,100,50,56,101,101,48,98,97,101,51,52,55>>),
      remainingFillableTakerAssetAmount |-> Str(<<52,53,48,48,48,48,48,48,48,48,48,48,48,48,48,48,48,48>>)],
    \* 15: 0x5ac775e05cc7d9c9efb2cfc9c741864d2ead2f068c2359603e91eba8813ad2f9
    [signature |-> Str(<<48,120,49,99,54,101,48,48,50,53,55,51,48,98,54,100,54,54,56,56,56,48,98,99,98,102,99,102,97,48,102,50,102,55,53,56,53,53,48,101,48,101,101,50,99,97,55,102,48,101,100,49,99,98,98,49,56,48,57,98,54,97,56,102,53,100,97,98,49,99,50,98,102,102,50,101,53,52,98,101,57,100,97,54,102,99,99,54,56,57,56,98,49,98,101,51,99,102,50,52,97,51,97,49,49,49,100,48,98,49,99,98,50,56,53,52,55,100,49,55,48,100,55,55,52,55,48,101,55,55,53,102,48,50>>),
      senderAddress |-> Str(<<48,120,48,48,48,48,48,48,48,48,48,48,48,48,48,48,48,48,48,48,48,48,48,48,48,48,48,48,48,48,48,48,48,48,48,48,48,48,48,48,48,48>>),
      makerAddress |-> Str(<<48,120,49,102,97,98,98,99,50,53,51,49,55,51,53,101,98,100,98,102,100,100,101,99,52,55,56,99,55,101,53,98,102,53,98,54,51,101,101,100,57,54>>),
      takerAddress |-> Str(<<48,120,48,48,48,48,48,48,48,48,48,48,48,48,48,48,48,48,48,48,48,48,48,48,48,48,48,48,48,48,48,48,48,48,48,48,48,48,48,48,48,48>>),
      makerFee |-> Str(<<48>>),
      takerFee |-> Str(<<53,54,50,48,57,54,48,48,48,48,48,48,48,48,48,48,48>>),
      makerAssetAmount |-> Str(<<51,50,54,56,48,48,48,48,48,48,48,48,48,48,48,48,48,48,48,48,48,48>>),
      takerAssetAmount |-> Str(<<50,56,49,48,52,56,48,48,48,48,48,48,48,48,48,48,48,48,48,48>>),
      makerAssetData |-> Str(<<48,120,102,52,55,50,54,49,98,48,48,48,48,48,48,48,48,48,48,48,48,48,48,48,48,48,48,48,48,48,48,48,48,48,52,99,51,50,55,52,55,49,99,52,52,98,50,100,97,99,100,54,101,57,48,53,50,53,102,57,100,54,50,57,98,100,50,101,52,102,54,54,50,99>>),
      takerAssetData |-> Str(<<48,120,102,52,55,50,54,49,98,48,48,48,48,48,48,48,48,48,48,48,48,48,48,48,48,48,48,48,48,48,48,48,48,48,99,48,50,97,97,97,51,57,98,50,50,51,102,101,56,100,48,97,48,101,53,99,52,102,50,55,101,97,100,57,48,56,51,99,55,53,54,99,99,50>>),
      salt |-> Str(<<49,53,57,50,48,54,56,48,52,49,51,52,57>>),
      exchangeAddress |-> Str(<<48,120,54,49,57,51,53,99,98,100,100,48,50,50,56,55,98,53,49,49,49,49,57,100,100,98,49,49,97,101,98,52,50,102,49,53,57,51,98,55,101,102>>),
      feeRecipientAddress |-> Str(<<48,120,49,48,97,97,56,99,56,50,101,51,54,53,54,49,55,48,98,97,97,101,56,48,100,49,56,57,98,56,98,55,100,99,101,97,54,56,54,53,99,57>>),
      expirationTimeSeconds |-> Str(<<49,54,48,52,49,54,52,48,52,49>>),
      makerFeeAssetData |-> Str(<<48,120>>),
      chainId |-> Num(1),
      takerFeeAssetData |-> Str(<<48,120,102,52,55,50,54,49,98,48,48,48,48,48,48,48,48,48,48,48,48,48,48,48,48,48,48,48,48,48,48,48,48,48,99,48,50,97,97,97,51,57,98,50,50,51,102,101,56,100,48,97,48,101,53,99,52,102,50,55,101,97,100,57,48,56,51,99,55,53,54,99,99,50>>),
      hash |-> Str(<<48,120,53,97,99,55,55,53,101,48,53,99,99,55,100,57,99,57,101,102,98,50,99,102,99,57,99,55,52,49,56,54,52,100,50,101,97,100,50,102,48,54,56,99,50,51,53,57,54,48,51,101,57,49,101,98,97,56,56,49,51,97,100,50,102,57>>),
      remainingFillableTakerAssetAmount |-> Str(<<50,56,49,48,52,56,48,48,48,48,48,48,48,48,48,48,48,48,48,48>>)],
    \* 16: 0x6020cfb377ae9e9d808cf1e6801106faa5ea43a5aaae0529b951c078fc76a611
    [signature |-> Str(<<48,120,49,98,52,99,57,98,101,52,48,50,50,100,99,50,49,97,51,51,102,53,99,97,54,101,55,53,98,50,51,102,98,48,52,53,48,101,102,101,102,100,55,53,55,48,97,100,97,98,54,97,52,48,54,53,54,55,97,54,97,57,51,100,99,102,97,49,51,51,53,51,52,54,99,55,50,48,56,56,50,48,52,48,101,97,48,51,101,54,51,49,102,99,100,99,53,52,102,54,55,52,56,49,51,98,50,48,51,55,50,53,50,57,54,53,50,57,52,56,99,48,57,97,54,50,53,48,102,52,100,57,48,50>>),
      senderAddress |-> Str(<<48,120,48,48,48,48,48,48,48,48,48,48,48,48,48,48,48,48,48,48,48,48,48,48,48,48,48,48,48,48,48,48,48,48,48,48,48,48,48,48,48,48>>),
      makerAddress |-> Str(<<48,120,57,102,101,52,50,51,99,57,102,50,100,101,52,101,99,57,101,97,48,55,52,49,100,50,98,102,52,49,56,55,54,52,57,97,56,55,48,56,54,50>>),
      takerAddress |-> Str(<<48,120,48,48,48,48,48,48,48,48,48,48,48,48,48,48,48,48,48,48,48,48,48,48,48,48,48,48,48,48,48,48,48,48,48,48,48,48,48,48,48,48>>),
      makerFee |-> Str(<<48>>),
      takerFee |-> Str(<<51,48,54,48,48,48,48,48,48,48,48,48,48>>),
      makerAssetAmount |-> Str(<<49,48,50,48,48,48,48,48,48,48,48,48,48,48,48,48>>),
      takerAssetAmount |-> Str(<<49,48,48,48,48,48,48,48,48,48,48,48,48,48,48,48,48,48,48,48,48,48,48,48>>),
      makerAssetData |-> Str(<<48,120,102,52,55,50,54,49,98,48,48,48,48,48,48,48,48,48,48,48,48,48,48,48,48,48,48,48,48,48,48,48,48,48,99,48,50,97,97,97,51,57,98,50,50,51,102,101,56,100,48,97,48,101,53,99,52,102,50,55,101,97,100,57,48,56,51,99,55,53,54,99,99,50>>),
      takerAssetData |-> Str(<<48,120,102,52,55,50,54,49,98,48,48,48,48,48,48,48,48,48,48,48,48,48,48,48,48,48,48,48,48,48,48,48,48,48,98,53,51,101,48,56,98,57,55,55,50,52,49,50,54,98,100,97,54,100,50,51,55,98,57,52,102,55,54,54,99,48,98,56,49,99,57,48,102,101>>),
      salt |-> Str(<<49,53,57,48,53,57,52,57,53,52,57,55,48>>),
      exchangeAddress |-> Str(<<48,120,54,49,57,51,53,99,98,100,100,48,50,50,56,55,98,53,49,49,49,49,57,100,100,98,49,49,97,101,98,52,50,102,49,53,57,51,98,55,101,102>>),
      feeRecipientAddress |-> Str(<<48,120,53,50,54,53,98,100,101,50,55,102,53,55,101,55,51,56,98,101,54,99,49,102,54,97,98,51,53,52,52,101,56,50,99,100,99,57,50,97,56,102>>),
      expirationTimeSeconds |-> Str(<<49,54,48,50,54,57,48,57,53,52>>),
      makerFeeAssetData |-> Str(<<48,120>>),
      chainId |-> Num(1),
      takerFeeAssetData |-> Str(<<48,120,102,52,55,50,54,49,98,48,48,48,48,48,48,48,48,48,48,48,48,48,48,48,48,48,48,48,48,48,48,48,48,48,99,48,50,97,97,97,51,57,98,50,50,51,102,101,56,100,48,97,48,101,53,99,52,102,50,55,101,97,100,57,48,56,51,99,55,53,54,99,99,50>>),
      hash |-> Str(<<48,120,54,48,50,48,99,102,98,51,55,55,97,101,57,101,57,100,56,48,56,99,102,49,101,54,56,48,49,49,48,54,102,97,97,53,101,97,52,51,97,53,97,97,97,101,48,53,50,57,98,57,53,49,99,48,55,56,102,99,55,54,97,54,49,49>>),
      remainingFillableTakerAssetAmount |-> Str(<<49,48,48,48,48,48,48,48,48,48,48,48,48,48,48,48,48,48,48,48,48,48,48,48>>)],
    \* 17: 0x6f36c1c23ba361a442ba3386f7abed065f06e772d8a64711fe73f6d3138786ac
    [signature |-> Str(<<48,120,49,98,48,56,52,53,97,53,98,52,100,54,53,49,56,98,57,99,52,53,51,98,98,51,102,48,101,102,101,53,48,52,99,56,97,53,48,48,56,101,57,57,57,51,99,97,56,102,55,53,48,100,51,52,50,50,49,98,52,52,55,48,50,98,97,101,49,55,101,102,52,51,51,102,49,50,56,53,55,102,100,99,100,54,52,51,52,54,99,55,54,99,56,51,52,102,56,50,50,101,54,102,57,54,54,55,54,55,100,57,50,48,54,97,56,99,101,51,55,100,52,52,55,57,54,56,56,54,50,98,48,50>>),
      senderAddress |-> Str(<<48,120,48,48,48,48,48,48,48,48,48,48,48,48,48,48,48,48,48,48,48,48,48,48,48,48,48,48,48,48,48,48,48,48,48,48,48,48,48,48,48,48>>),
      makerAddress |-> Str(<<48,120,53,53,54,100,53,57,51,57,53,52,53,57,51,99,55,49,54,54,56,98,50,51,99,99,98,55,52,52,100,50,56,57,99,53,100,99,56,99,53,48>>),
      takerAddress |-> Str(<<48,120,48,48,48,48,48,48,48,48,48,48,48,48,48,48,48,48,48,48,48,48,48,48,48,48,48,48,48,48,48,48,48,48,48,48,48,48,48,48,48,48>>),
      makerFee |-> Str(<<48>>),
      takerFee |-> Str(<<50,52,57,54,48,50,50,56,50,50,50,52,50,49>>),
      makerAssetAmount |-> Str(<<50,50,52,57,51,57,55,55,52,50,57,52,52,48,51,48,57,57,52,56>>),
      takerAssetAmount |-> Str(<<57,57,56,52,48,57,49,50,56,56,57,54,56,52,51,57>>),
      makerAssetData |-> Str(<<48,120,102,52,55,50,54,49,98,48,48,48,48,48,48,48,48,48,48,48,48,48,48,48,48,48,48,48,48,48,48,48,48,48,101,52,56,57,55,50,102,99,100,56,50,97,50,55,52,52,49,49,99,48,49,56,51,52,101,50,102,48,51,49,100,52,51,55,55,102,97,50,99,48>>),
      takerAssetData |-> Str(<<48,120,102,52,55,50,54,49,98,48,48,48,48,48,48,48,48,48,48,48,48,48,48,48,48,48,48,48,48,48,48,48,48,48,53,101,55,52,99,57,48,51,54,102,98,56,54,98,100,55,101,99,100,99,98,48,56,52,97,48,54,55,51,101,102,99,51,50,101,97,51,49,99,98>>),
      salt |-> Str(<<55,48,53,49,56,54,51,53,55,51,50,51,56,54,56,49,53,52,49,55,54,56,53,55,56,48,50,48,56,56,52,50,49,49,56,54,57,52,51,55,51,56,50,52,55,55,49,54,50,57,51,48,55,49,51,54,52,55,48,51,51,52,52,52,49,48,49,49,55,48,52,49,51,56,56,55,49>>),
      exchangeAddress |-> Str(<<48,120,54,49,57,51,53,99,98,100,100,48,50,50,56,55,98,53,49,49,49,49,57,100,100,98,49,49,97,101,98,52,50,102,49,53,57,51,98,55,101,102>>),
      feeRecipientAddress |-> Str(<<48,120,54,56,97,49,55,98,53,56,55,99,97,102,52,102,57,51,50,57,102,48,101,51,55,50,101,51,97,55,56,100,50,51,97,52,54,100,101,54,98,53>>),
      expirationTimeSeconds |-> Str(<<49,54,49,54,48,54,51,56,50,55>>),
      makerFeeAssetData |-> Str(<<48,120>>),
      chainId |-> Num(1),
      takerFeeAssetData |-> Str(<<48,120,102,52,55,50,54,49,98,48,48,48,48,48,48,48,48,48,48,48,48,48,48,48,48,48,48,48,48,48,48,48,48,48,53,101,55,52,99,57,48,51,54,102,98,56,54,98,100,55,101,99,100,99,98,48,56,52,97,48,54,55,51,101,102,99,51,50,101,97,51,49,99,98>>),
      hash |-> Str(<<48,120,54,102,51,54,99,49,99,50,51,98,97,51,54,49,97,52,52,50,98,97,51,51,56,54,102,55,97,98,101,100,48,54,53,102,48,54,101,55,55,50,100,56,97,54,52,55,49,49,102,101,55,51,102,54,100,51,49,51,56,55,56,54,97,99>>),
      remainingFillableTakerAssetAmount |-> Str(<<57,57,56,52,48,57,49,50,56,56,57,54,56,52,51,57>>)],
    \* 18: 0x73b79d3cf8189f28ada0b3d71124a950505dc705e62420e6aea2e3e40ca0fc0e
    [signature |-> Str(<<48,120,49,98,97,57,102,97,50,97,99,100,49,48,54,56,50,49,56,56,49,54,99,99,49,55,57,101,99,48,101,56,102,57,54,101,54,101,101,97,53,57,54,48,102,55,48,54,56,50,48,57,101,98,57,52,102,100,100,98,48,100,102,56,97,54,54,57,50,56,55,98,53,54,98,97,51,55,98,98,99,101,100,55,51,100,100,56,56,52,57,98,51,52,99,98,101,99,49,48,102,99,98,98,99,54,50,52,101,51,50,55,51,48,100,54,98,98,57,56,56,55,102,57,101,101,57,56,53,100,53,54,48,50>>),
      senderAddress |-> Str(<<48,120,48,48,48,48,48,48,48,48,48,48,48,48,48,48,48,48,48,48,48,48,48,48,48,48,48,48,48,48,48,48,48,48,48,48,48,48,48,48,48,48>>),
      makerAddress |-> Str(<<48,120,48,99,53,102,97,53,102,97,53,49,100,56,52,50,50,55,98,102,97,99,100,99,53,54,98,51,54,51,50,57,50,56,54,98,51,55,100,48,53,49>>),
      takerAddress |-> Str(<<48,120,48,48,48,48,48,48,48,48,48,48,48,48,48,48,48,48,48,48,48,48,48,48,48,48,48,48,48,48,48,48,48,48,48,48,48,48,48,48,48,48>>),
      makerFee |-> Str(<<48>>),
      takerFee |-> Str(<<49,51,50,51,55,53,48,48,48>>),
      makerAssetAmount |-> Str(<<49,48,48,48,48,48,48,48,48,48,48,48,48,48,48,48,48,48,48>>),
      takerAssetAmount |-> Str(<<53,50,57,53,48,48,48,48,48,48,48>>),
      makerAssetData |-> Str(<<48,120,102,52,55,50,54,49,98,48,48,48,48,48,48,48,48,48,48,48,48,48,48,48,48,48,48,48,48,48,48,48,48,48,99,48,50,97,97,97,51,57,98,50,50,51,102,101,56,100,48,97,48,101,53,99,52,102,50,55,101,97,100,57,48,56,51,99,55,53,54,99,99,50>>),
      takerAssetData |-> Str(<<48,120,102,52,55,50,54,49,98,48,48,48,48,48,48,48,48,48,48,48,48,48,48,48,48,48,48,48,48,48,48,48,48,48,50,55,48,53,52,98,49,51,98,49,98,55,57,56,98,51,52,53,98,53,57,49,97,52,100,50,50,101,54,53,54,50,100,52,55,101,97,55,53,97>>),
      salt |-> Str(<<53,53,50,57,50,55,48,56,51,49,49,50,52,52,49,56,50,50,48,51,49,48,49,49,53,55,51,52,56,51,50,49,53,55,48,50,54,50,52,57,51,52,52,49,54,51,50,57,57,49,53,50,53,56,48,52,53,49,54,56,52,50,51,57,49,52,48,56,57,50,56,55,48,52,51,55,57>>),
      exchangeAddress |-> Str(<<48,120,54,49,57,51,53,99,98,100,100,48,50,50,56,55,98,53,49,49,49,49,57,100,100,98,49,49,97,101,98,52,50,102,49,53,57,51,98,55,101,102>>),
      feeRecipientAddress |-> Str(<<48,120,54,56,97,49,55,98,53,56,55,99,97,102,52,102,57,51,50,57,102,48,101,51,55,50,101,51,97,55,56,100,50,51,97,52,54,100,101,54,98,53>>),
      expirationTimeSeconds |-> Str(<<49,56,53,48,54,52,56,50,51,51>>),
      makerFeeAssetData |-> Str(<<48,120>>),
      chainId |-> Num(1),
      takerFeeAssetData |-> Str(<<48,120,102,52,55,50,54,49,98,48,48,48,48,48,48,48,48,48,48,48,48,48,48,48,48,48,48,48,48,48,48,48,48,48,50,55,48,53,52,98,49,51,98,49,98,55,57,56,98,51,52,53,98,53,57,49,97,52,100,50,50,101,54,53,54,50,100,52,55,101,97,55,53,97>>),
      hash |-> Str(<<48,120,55,51,98,55,57,100,51,99,102,56,49,56,57,102,50,56,97,100,97,48,98,51,100,55,49,49,50,52,97,57,53,48,53,48,53,100,99,55,48,53,101,54,50,52,50,48,101,54,97,101,97,50,101,51,101,52,48,99,97,48,102,99,48,101>>),
      remainingFillableTakerAssetAmount |-> Str(<<53,50,57,53,48,48,48,48,48,48,48>>)],
    \* 19: 0x756b6b23d783b6d7151b33c2b7187bc5307bf57a3e8c24959cb54cf255a03bb1
    [signature |-> Str(<<48,120,49,99,57,98,100,51,97,101,53,102,49,55,56,48,98,55,49,52,54,52,51,50,97,55,100,100,54,55,57,98,54,101,50,102,50,99,53,55,56,56,97,98,100,48,55,51,98,100,53,54,50,57,99,100,101,50,97,99,97,56,97,53,101,102,99,101,53,49,52,49,56,54,98,50,56,48,101,102,57,55,99,51,100,56,100,55,57,101,97,97,50,52,52,53,102,54,97,53,49,53,52,57,54,102,56,49,100,48,49,57,53,54,100,102,97,100,49,50,57,49,56,100,97,97,99,48,50,98,101,102,48,51>>),
      senderAddress |-> Str(<<48,120,48,48,48,48,48,48,48,48,48,48,48,48,48,48,48,48,48,48,48,48,48,48,48,48,48,48,48,48,48,48,48,48,48,48,48,48,48,48,48,48>>),
      makerAddress |-> Str(<<48,120,54,57,57,53,54,99,53,54,51,48,50,51,54,56,52,53,56,51,50,101,100,50,100,98,56,54,102,52,57,49,102,54,101,102,51,56,54,48,50,98>>),
      takerAddress |-> Str(<<48,120,48,48,48,48,48,48,48,48,48,48,48,48,48,48,48,48,48,48,48,48,48,48,48,48,48,48,48,48,48,48,48,48,48,48,48,48,48,48,48,48>>),
      makerFee |-> Str(<<48>>),
      takerFee |-> Str(<<50,53,48,48,48,48,48,48,48>>),
      makerAssetAmount |-> Str(<<51,55,48,48,48,48,48,48,48>>),
      takerAssetAmount |-> Str(<<49,48,48,48,48,48,48,48,48,48,48,48>>),
      makerAssetData |-> Str(<<48,120,102,52,55,50,54,49,98,48,48,48,48,48,48,48,48,48,48,48,48,48,48,48,48,48,48,48,48,48,48,48,48,48,100,97,99,49,55,102,57,53,56,100,50,101,101,53,50,51,97,50,50,48,54,50,48,54,57,57,52,53,57,55,99,49,51,100,56,51,49,101,99,55>>),
      takerAssetData |-> Str(<<48,120,102,52,55,50,54,49,98,48,48,48,48,48,48,48,48,48,48,48,48,48,48,48,48,48,48,48,48,48,48,48,48,48,56,52,48,48,100,57,52,97,53,99,98,48,102,97,48,100,48,52,49,97,51,55,56,56,101,51,57,53,50,56,53,100,54,49,99,57,101,101,53,101>>),
      salt |-> Str(<<53,56,53,56,55,51,51,52,48,53,54,53,49,52,51,53,48,52,54,50,53,53,48,56,57,57,57,54,53,56,50,49,49,52,51,50,57,57,54,52,57,51,49,52,48,49,54,56,52,55,57,57,56,50,48,48,53,50,49,57,55,49,57,57,50,52,54,51,53,57,49,51,55,53,52>>),
      exchangeAddress |-> Str(<<48,120,54,49,57,51,53,99,98,100,100,48,50,50,56,55,98,53,49,49,49,49,57,100,100,98,49,49,97,101,98,52,50,102,49,53,57,51,98,55,101,102>>),
      feeRecipientAddress |-> Str(<<48,120,54,56,97,49,55,98,53,56,55,99,97,102,52,102,57,51,50,57,102,48,101,51,55,50,101,51,97,55,56,100,50,51,97,52,54,100,101,54,98,53>>),
      expirationTimeSeconds |-> Str(<<49,56,53,48,50,57,56,51,54,52>>),
      makerFeeAssetData |-> Str(<<48,120>>),
      chainId |-> Num(1),
      takerFeeAssetData |-> Str(<<48,120,102,52,55,50,54,49,98,48,48,48,48,48,48,48,48,48,48,48,48,48,48,48,48,48,48,48,48,48,48,48,48,48,56,52,48,48,100,57,52,97,53,99,98,48,102,97,48,100,48,52,49,97,51,55,56,56,101,51,57,53,50,56,53,100,54,49,99,57,101,101,53,101>>),
      hash |-> Str(<<48,120,55,53,54,98,54,98,50,51,100,55,56,51,98,54,100,55,49,53,49,98,51,51,99,50,98,55,49,56,55,98,99,53,51,48,55,98,102,53,55,97,51,101,56,99,50,52,57,53,57,99,98,53,52,99,102,50,53,53,97,48,51,98,98,49>>),
      remainingFillableTakerAssetAmount |-> Str(<<51,54,53,52,54,55,50,57,57,52,51>>)],
    \* 20: 0x75d2b56b11f21235ec8faec8be9d081090678cf62f5c69fa118236d829424719
    [signature |-> Str(<<48,120,49,98,52,56,54,49,102,57,57,51,49,55,52,57,49,100,51,57,101,50,99,99,52,56,56,49,51,100,101,97,49,56,53,49,55,48,57,51,102,54,51,50,53,55,52,98,54,99,56,98,57,97,101,55,102,48,49,101,55,50,57,53,57,102,53,54,48,50,51,101,100,100,55,56,55,53,100,51,101,101,48,97,54,55,99,97,52,56,55,98,101,48,102,98,51,100,50,55,50,97,48,51,53,98,56,102,100,51,101,55,53,55,52,54,100,99,55,101,54,55,52,48,50,53,55,97,100,102,54,97,48,50>>),
      senderAddress |-> Str(<<48,120,48,48,48,48,48,48,48,48,48,48,48,48,48,48,48,48,48,48,48,48,48,48,48,48,48,48,48,48,48,48,48,48,48,48,48,48,48,48,48,48>>),
      makerAddress |-> Str(<<48,120,48,99,53,102,97,53,102,97,53,49,100,56,52,50,50,55,98,102,97,99,100,99,53,54,98,51,54,51,50,57,50,56,54,98,51,55,100,48,53,49>>),
      takerAddress |-> Str(<<48,120,48,48,48,48,48,48,48,48,48,48,48,48,48,48,48,48,48,48,48,48,48,48,48,48,48,48,48,48,48,48,48,48,48,48,48,48,48,48,48,48>>),
      makerFee |-> Str(<<48>>),
      takerFee |-> Str(<<48>>),
      makerAssetAmount |-> Str(<<49,49,57,57,55,48,48,48,48,48,48,48,48,48,48,48>>),
      takerAssetAmount |-> Str(<<49,49,57,57,55,48,48,48,48,48,48,48,48,48,48,48,48,48,48,48,48,48,48>>),
      makerAssetData |-> Str(<<48,120,102,52,55,50,54,49,98,48,48,48,48,48,48,48,48,48,48,48,48,48,48,48,48,48,48,48,48,48,48,48,48,48,99,48,50,97,97,97,51,57,98,50,50,51,102,101,56,100,48,97,48,101,53,99,52,102,50,55,101,97,100,57,48,56,51,99,55,53,54,99,99,50>>),
      takerAssetData |-> Str(<<48,120,102,52,55,50,54,49,98,48,48,48,48,48,48,48,48,48,48,48,48,48,48,48,48,48,48,48,48,48,48,48,48,48,48,97,98,100,97,99,101,55,48,100,51,55,57,48,50,51,53,97,102,52,52,56,99,56,56,53,52,55,54,48,51,98,57,52,53,54,48,52,101,97>>),
      salt |-> Str(<<49,53,57,49,52,54,56,49,53,50,50,54,50>>),
      exchangeAddress |-> Str(<<48,120,54,49,57,51,53,99,98,100,100,48,50,50,56,55,98,53,49,49,49,49,57,100,100,98,49,49,97,101,98,52,50,102,49,53,57,51,98,55,101,102>>),
      feeRecipientAddress |-> Str(<<48,120,97,50,53,56,98,51,57,57,53,52,99,101,102,53,99,98,49,52,50,102,100,53,54,55,97,52,54,99,100,100,98,51,49,97,54,55,48,49,50,52>>),
      expirationTimeSeconds |-> Str(<<49,54,49,53,48,53,56,55,50,57>>),
      makerFeeAssetData |-> Str(<<48,120>>),
      chainId |-> Num(1),
      takerFeeAssetData |-> Str(<<48,120>>),
      hash |-> Str(<<48,120,55,53,100,50,98,53,54,98,49,49,102,50,49,50,51,53,101,99,56,102,97,101,99,56,98,101,57,100,48,56,49,48,57,48,54,55,56,99,102,54,50,102,53,99,54,57,102,97,49,49,56,50,51,54,100,56,50,57,52,50,52,55,49,57>>),
      remainingFillableTakerAssetAmount |-> Str(<<49,49,57,57,55,48,48,48,48,48,48,48,48,48,48,48,48,48,48,48,48,48,48>>)],
    \* 21: 0x7b342995cfbc2b76ae33e2a5bbaa60babadb9f7722a0fea9339ac9020fb8427d
    [signature |-> Str(<<48,120,49,99,57,55,54,49,53,51,102,48,56,99,57,49,51,102,51,51,50,56,98,55,50,49,97,98,49,50,98,50,49,99,101,50,52,100,102,57,56,100,102,98,100,56,48,97,49,99,57,57,57,52,97,99,49,102,54,53,98,57,101,101,55,55,48,55,51,101,97,101,54,100,101,100,50,99,52,100,49,98,56,54,52,98,52,53,99,97,50,50,50,53,102,97,101,56,52,102,97,53,53,49,49,100,56,97,52,50,97,102,52,51,53,101,50,53,53,49,53,102,97,57,97,99,101,55,53,55,55,52,48,51>>),
      senderAddress |-> Str(<<48,120,48,48,48,48,48,48,48,48,48,48,48,48,48,48,48,48,48,48,48,48,48,48,48,48,48,48,48,48,48,48,48,48,48,48,48,48,48,48,48,48>>),
      makerAddress |-> Str(<<48,120,56,97,57,99,48,48,98,52,52,98,99,54,56,100,101,98,100,48,54,55,102,101,56,51,98,53,100,98,52,98,98,57,53,51,56,51,51,53,49,57>>),
      takerAddress |-> Str(<<48,120,48,48,48,48,48,48,48,48,48,48,48,48,48,48,48,48,48,48,48,48,48,48,48,48,48,48,48,48,48,48,48,48,48,48,48,48,48,48,48,48>>),
      makerFee |-> Str(<<48>>),
      takerFee |-> Str(<<49,50,51,55,53,48,48,48,48,48,48,48,48,48,48,48>>),
      makerAssetAmount |-> Str(<<53,48,48,48,48,48,48,48,48,48,48,48,48,48,48,48,48,48,48,48,48>>),
      takerAssetAmount |-> Str(<<52,57,53,48,48,48,48,48,48,48,48,48,48,48,48,48,48,48>>),
      makerAssetData |-> Str(<<48,120,102,52,55,50,54,49,98,48,48,48,48,48,48,48,48,48,48,48,48,48,48,48,48,48,48,48,48,48,48,48,48,48,98,54,50,49,51,50,101,51,53,97,54,99,49,51,101,101,49,101,101,48,102,56,52,100,99,53,100,52,48,98,97,100,56,100,56,49,53,50,48,54>>),
      takerAssetData |-> Str(<<48,120,102,52,55,50,54,49,98,48,48,48,48,48,48,48,48,48,48,48,48,48,48,48,48,48,48,48,48,48,48,48,48,48,99,48,50,97,97,97,51,57,98,50,50,51,102,101,56,100,48,97,48,101,53,99,52,102,50,55,101,97,100,57,48,56,51,99,55,53,54,99,99,50>>),
      salt |-> Str(<<51,49,51,57,51,56,49,52,56,57,49,48,54,56,55,51,51,48,50,51,51,56,50,57,57,49,50,54,51,56,48,53,56,52,53,51,57,48,52,53,50,48,51,48,53,49,51,53,52,54,51,49,49,53,56,54,48,52,56,55,48,54,55,48,53,53,51,52,53,50,55,49,52,50,54,57,56>>),
      exchangeAddress |-> Str(<<48,120,54,49,57,51,53,99,98,100,100,48,50,50,56,55,98,53,49,49,49,49,57,100,100,98,49,49,97,101,98,52,50,102,49,53,57,51,98,55,101,102>>),
      feeRecipientAddress |-> Str(<<48,120,54,56,97,49,55,98,53,56,55,99,97,102,52,102,57,51,50,57,102,48,101,51,55,50,101,51,97,55,56,100,50,51,97,52,54,100,101,54,98,53>>),
      expirationTimeSeconds |-> Str(<<51,54,48,48,48,48,49,53,57,48,48,48,48,54,56,52>>),
      makerFeeAssetData |-> Str(<<48,120>>),
      chainId |-> Num(1),
      takerFeeAssetData |-> Str(<<48,120,102,52,55,50,54,49,98,48,48,48,48,48,48,48,48,48,48,48,48,48,48,48,48,48,48,48,48,48,48,48,48,48,99,48,50,97,97,97,51,57,98,50,50,51,102,101,56,100,48,97,48,101,53,99,52,102,50,55,101,97,100,57,48,56,51,99,55,53,54,99,99,50>>),
      hash |-> Str(<<48,120,55,98,51,52,50,57,57,53,99,102,98,99,50,98,55,54,97,101,51,51,101,50,97,53,98,98,97,97,54,48,98,97,98,97,100,98,57,102,55,55,50,50,97,48,102,101,97,57,51,51,57,97,99,57,48,50,48,102,98,56,52,50,55,100>>),
      remainingFillableTakerAssetAmount |-> Str(<<52,57,53,48,48,48,48,48,48,48,48,48,48,48,48,48,48,48>>)],
    \* 22: 0x83e7d03072bfebcde119779365010571e7942c88f66b3bd8da89487d2edb822f
    [signature |-> Str(<<48,120,49,99,51,102,49,48,53,56,54,49,101,48,51,100,99,50,99,49,48,56,97,100,49,98,50,53,100,57,57,102,97,52,102,57,56,56,102,100,54,56,51,102,98,101,100,55,56,53,52,101,54,54,99,54,52,53,49,50,53,56,55,49,50,53,55,57,52,101,48,55,98,55,99,52,101,53,102,48,102,53,98,100,98,98,56,57,97,51,99,99,100,54,57,56,57,50,52,52,52,100,52,49,48,55,98,56,100,99,99,54,48,102,56,52,101,98,50,97,97,51,52,52,101,100,100,102,49,51,54,97,48,50>>),
      senderAddress |-> Str(<<48,120,48,48,48,48,48,48,48,48,48,48,48,48,48,48,48,48,48,48,48,48,48,48,48,48,48,48,48,48,48,48,48,48,48,48,48,48,48,48,48,48>>),
      makerAddress |-> Str(<<48,120,100,50,102,54,101,50,51,101,53,49,53,102,54,55,52,97,54,102,52,100,53,50,102,99,101,55,57,54,50,101,50,101,48,48,53,48,55,57,56,102>>),
      takerAddress |-> Str(<<48,120,48,48,48,48,48,48,48,48,48,48,48,48,48,48,48,48,48,48,48,48,48,48,48,48,48,48,48,48,48,48,48,48,48,48,48,48,48,48,48,48>>),
      makerFee |-> Str(<<48>>),
      takerFee |-> Str(<<51,48,48,48,48,48,48,48,48,48,48,48,48,48,48,48,48>>),
      makerAssetAmount |-> Str(<<53,48,48,48,48,48,48,48,48,48,48,48,48,48,48,48,48>>),
      takerAssetAmount |-> Str(<<49,53,48,48,48,48,48,48,48,48,48,48,48,48,48,48,48,48,48,48>>),
      makerAssetData |-> Str(<<48,120,102,52,55,50,54,49,98,48,48,48,48,48,48,48,48,48,48,48,48,48,48,48,48,48,48,48,48,48,48,48,48,48,55,55,54,55,56,99,102,100,48,102,50,98,53,53,49,53,50,97,100,99,54,53,57,57,100,98,57,102,57,56,56,97,98,50,56,100,55,50,102,50>>),
      takerAssetData |-> Str(<<48,120,102,52,55,50,54,49,98,48,48,48,48,48,48,48,48,48,48,48,48,48,48,48,48,48,48,48,48,48,48,48,48,48,99,48,50,97,97,97,51,57,98,50,50,51,102,101,56,100,48,97,48,101,53,99,52,102,50,55,101,97,100,57,48,56,51,99,55,53,54,99,99,50>>),
      salt |-> Str(<<49,53,57,50,48,50,53,50,54,49,56,56,48>>),
      exchangeAddress |-> Str(<<48,120,54,49,57,51,53,99,98,100,100,48,50,50,56,55,98,53,49,49,49,49,57,100,100,98,49,49,97,101,98,52,50,102,49,53,57,51,98,55,101,102>>),
      feeRecipientAddress |-> Str(<<48,120,49,48,97,97,56,99,56,50,101,51,54,53,54,49,55,48,98,97,97,101,56,48,100,49,56,57,98,56,98,55,100,99,101,97,54,56,54,53,99,57>>),
      expirationTimeSeconds |-> Str(<<49,54,48,52,49,50,49,50,54,49>>),
      makerFeeAssetData |-> Str(<<48,120>>),
      chainId |-> Num(1),
      takerFeeAssetData |-> Str(<<48,120,102,52,55,50,54,49,98,48,48,48,48,48,48,48,48,48,48,48,48,48,48,48,48,48,48,48,48,48,48,48,48,48,99,48,50,97,97,97,51,57,98,50,50,51,102,101,56,100,48,97,48,101,53,99,52,102,50,55,101,97,100,57,48,56,51,99,55,53,54,99,99,50>>),
      hash |-> Str(<<48,120,56,51,101,55,100,48,51,48,55,50,98,102,101,98,99,100,101,49,49,57,55,55,57,51,54,53,48,49,48,53,55,49,101,55,57,52,50,99,56,56,102,54,54,98,51,98,100,56,100,97,56,57,52,56,55,100,50,101,100,98,56,50,50,102>>),
      remainingFillableTakerAssetAmount |-> Str(<<49,53,48,48,48,48,48,48,48,48,48,48,48,48,48,48,48,48,48,48>>)],
    \* 23: 0x86133e95799b57f8ba217e8ef9b1888196bc426e55aaf789d16b1d6e0cdd0f66
    [signature |-> Str(<<48,120,49,98,57,48,56,51,51,97,101,99,51,98,56,55,102,102,102,99,51,51,50,102,51,52,57,57,98,52,98,98,51,52,99,53,53,101,53,57,54,49,102,57,55,98,49,52,99,49,101,48,56,49,101,101,99,101,50,48,56,97,99,102,48,97,97,97,53,102,99,49,102,102,51,53,53,51,56,56,98,54,53,102,52,57,98,53,101,54,100,101,55,55,51,98,51,48,53,99,49,56,54,52,48,55,56,100,54,55,100,99,50,50,49,49,99,57,100,51,55,50,102,56,56,56,101,57,55,97,56,54,48,51>>),
      senderAddress |-> Str(<<48,120,48,48,48,48,48,48,48,48,48,48,48,48,48,48,48,48,48,48,48,48,48,48,48,48,48,48,48,48,48,48,48,48,48,48,48,48,48,48,48,48>>),
      makerAddress |-> Str(<<48,120,102,55,50,54,97,54,56,99,49,51,54,57,51,102,100,48,97,54,56,48,100,48,98,51,57,57,53,53,49,55,102,54,100,102,49,99,56,99,98,49>>),
      takerAddress |-> Str(<<48,120,48,48,48,48,48,48,48,48,48,48,48,48,48,48,48,48,48,48,48,48,48,48,48,48,48,48,48,48,48,48,48,48,48,48,48,48,48,48,48,48>>),
      makerFee |-> Str(<<48>>),
      takerFee |-> Str(<<48>>),
      makerAssetAmount |-> Str(<<56,57,55,50,51,55,54,54,50,48,48,48,48,48,49,54,51,56,53>>),
      takerAssetAmount |-> Str(<<52,52,56,54,49,56,55,52,49,50,55,54,50,51,52,54,49,57,50>>),
      makerAssetData |-> Str(<<48,120,102,52,55,50,54,49,98,48,48,48,48,48,48,48,48,48,48,48,48,48,48,48,48,48,48,48,48,48,48,48,48,48,53,56,98,54,97,56,97,51,51,48,50,51,54,57,100,97,101,99,51,56,51,51,51,52,54,55,50,52,48,52,101,101,55,51,51,97,98,50,51,57>>),
      takerAssetData |-> Str(<<48,120,102,52,55,50,54,49,98,48,48,48,48,48,48,48,48,48,48,48,48,48,48,48,48,48,48,48,48,48,48,48,48,48,99,48,50,97,97,97,51,57,98,50,50,51,102,101,56,100,48,97,48,101,53,99,52,102,50,55,101,97,100,57,48,56,51,99,55,53,54,99,99,50>>),
      salt |-> Str(<<49,53,57,50,52,49,55,49,48,56,56,57,53>>),
      exchangeAddress |-> Str(<<48,120,54,49,57,51,53,99,98,100,100,48,50,50,56,55,98,53,49,49,49,49,57,100,100,98,49,49,97,101,98,52,50,102,49,53,57,51,98,55,101,102>>),
      feeRecipientAddress |-> Str(<<48,120,97,50,53,56,98,51,57,57,53,52,99,101,102,53,99,98,49,52,50,102,100,53,54,55,97,52,54,99,100,100,98,51,49,97,54,55,48,49,50,52>>),
      expirationTimeSeconds |-> Str(<<49,53,57,50,53,48,51,53,48,56>>),
      makerFeeAssetData |-> Str(<<48,120>>),
      chainId |-> Num(1),
      takerFeeAssetData |-> Str(<<48,120>>),
      hash |-> Str(<<48,120,56,54,49,51,51,101,57,53,55,57,57,98,53,55,102,56,98,97,50,49,55,101,56,101,102,57,98,49,56,56,56,49,57,54,98,99,52,50,54,101,53,53,97,97,102,55,56,57,100,49,54,98,49,100,54,101,48,99,100,100,48,102,54,54>>),
      remainingFillableTakerAssetAmount |-> Str(<<52,52,56,54,49,56,55,52,49,50,55,54,50,51,52,54,49,57,50>>)],
    \* 24: 0x8b45b4201d658fccc6f3066162502c46cbf0928f0ca11738398e811d95ee2206
    [signature |-> Str(<<48,120,49,98,102,51,49,100,102,100,53,54,101,97,56,53,100,102,56,49,55,54,57,54,99,97,54,56,55,102,99,52,55,97,101,56,97,49,102,53,49,54,49,55,49,53,102,50,53,49,99,97,48,51,56,101,54,52,52,48,50,55,98,53,99,98,52,57,53,48,52,98,99,53,97,98,52,57,49,100,57,97,48,48,51,51,48,48,48,100,102,52,100,98,97,50,49,53,48,97,56,51,100,52,53,99,98,55,54,56,99,97,97,97,50,102,99,99,97,97,53,50,50,50,54,97,101,48,49,54,97,57,48,50>>),
      senderAddress |-> Str(<<48,120,48,48,48,48,48,48,48,48,48,48,48,48,48,48,48,48,48,48,48,48,48,48,48,48,48,48,48,48,48,48,48,48,48,48,48,48,48,48,48,48>>),
      makerAddress |-> Str(<<48,120,99,49,54,52,53,97,100,53,54,50,101,49,99,98,57,102,100,102,53,55,51,53,50,51,51,98,97,52,98,50,97,54,99,57,101,48,49,49,99,49>>),
      takerAddress |-> Str(<<48,120,48,48,48,48,48,48,48,48,48,48,48,48,48,48,48,48,48,48,48,48,48,48,48,48,48,48,48,48,48,48,48,48,48,48,48,48,48,48,48,48>>),
      makerFee |-> Str(<<48>>),
      takerFee |-> Str(<<48>>),
      makerAssetAmount |-> Str(<<54,48,48,48,48,48,48,48,48,48,48,48,48,48,48,48,48,48,48,48,48>>),
      takerAssetAmount |-> Str(<<49,53,57,48,48,48,48,48,48,48,48,48,48,48,48,48,48,48,48>>),
      makerAssetData |-> Str(<<48,120,102,52,55,50,54,49,98,48,48,48,48,48,48,48,48,48,48,48,48,48,48,48,48,48,48,48,48,48,48,48,48,48,53,98,99,55,101,53,102,48,97,98,56,98,50,101,49,48,100,50,100,48,97,51,102,50,49,55,51,57,102,99,101,54,50,52,53,57,97,101,102,51>>),
      takerAssetData |-> Str(<<48,120,102,52,55,50,54,49,98,48,48,48,48,48,48,48,48,48,48,48,48,48,48,48,48,48,48,48,48,48,48,48,48,48,99,48,50,97,97,97,51,57,98,50,50,51,102,101,56,100,48,97,48,101,53,99,52,102,50,55,101,97,100,57,48,56,51,99,55,53,54,99,99,50>>),
      salt |-> Str(<<49,53,57,50,48,50,53,55,56,55,54,57,53>>),
      exchangeAddress |-> Str(<<48,120,54,49,57,51,53,99,98,100,100,48,50,50,56,55,98,53,49,49,49,49,57,100,100,98,49,49,97,101,98,52,50,102,49,53,57,51,98,55,101,102>>),
      feeRecipientAddress |-> Str(<<48,120,97,50,53,56,98,51,57,57,53,52,99,101,102,53,99,98,49,52,50,102,100,53,54,55,97,52,54,99,100,100,98,51,49,97,54,55,48,49,50,52>>),
      expirationTimeSeconds |-> Str(<<49,53,57,52,54,49,55,55,56,54>>),
      makerFeeAssetData |-> Str(<<48,120>>),
      chainId |-> Num(1),
      takerFeeAssetData |-> Str(<<48,120>>),
      hash |-> Str(<<48,120,56,98,52,53,98,52,50,48,49,100,54,53,56,102,99,99,99,54,102,51,48,54,54,49,54,50,53,48,50,99,52,54,99,98,102,48,57,50,56,102,48,99,97,49,49,55,51,56,51,57,56,101,56,49,49,100,57,53,101,101,50,50,48,54>>),
      remainingFillableTakerAssetAmount |-> Str(<<49,53,57,48,48,48,48,48,48,48,48,48,48,48,48,48,48,48,48>>)],
    \* 25: 0x947798e56f26c668494495ab322eea1aaa3495932dc72ccf2f678b55d73cc206
    [signature |-> Str(<<48,120,49,98,55,57,99,48,100,53,56,100,101,57,102,49,49,56,53,50,100,51,53,97,49,102,56,57,101,100,97,97,54,102,100,52,57,55,53,102,49,52,101,51,53,51,49,50,99,98,55,99,53,50,101,51,101,98,51,99,49,50,99,50,49,56,102,56,48,101,102,49,48,98,97,57,101,48,57,101,56,99,53,48,54,53,57,52,55,56,53,56,53,49,97,52,57,55,53,56,99,53,101,48,50,102,102,48,101,100,48,98,52,49,99,56,51,50,97,99,54,50,51,100,51,97,55,53,53,53,57,51,48,51>>),
      senderAddress |-> Str(<<48,120,48,48,48,48,48,48,48,48,48,48,48,48,48,48,48,48,48,48,48,48,48,48,48,48,48,48,48,48,48,48,48,48,48,48,48,48,48,48,48,48>>),
      makerAddress |-> Str(<<48,120,56,97,57,99,48,48,98,52,52,98,99,54,56,100,101,98,100,48,54,55,102,101,56,51,98,53,100,98,52,98,98,57,53,51,56,51,51,53,49,57>>),
      takerAddress |-> Str(<<48,120,48,48,48,48,48,48,48,48,48,48,48,48,48,48,48,48,48,48,48,48,48,48,48,48,48,48,48,48,48,48,48,48,48,48,48,48,48,48,48,48>>),
      makerFee |-> Str(<<48>>),
      takerFee |-> Str(<<49,53,54,54,53,48,48,48,48,48,48,48,48,48,48,48,48,48>>),
      makerAssetAmount |-> Str(<<49,51,48,48,48,48,48,48,48,48,48,48,48,48,48,48,48,48,48,48,48,48>>),
      takerAssetAmount |-> Str(<<54,50,54,54,48,48,48,48,48,48,48,48,48,48,48,48,48,48,48,48>>),
      makerAssetData |-> Str(<<48,120,102,52,55,50,54,49,98,48,48,48,48,48,48,48,48,48,48,48,48,48,48,48,48,48,48,48,48,48,48,48,48,48,98,54,50,49,51,50,101,51,53,97,54,99,49,51,101,101,49,101,101,48,102,56,52,100,99,53,100,52,48,98,97,100,56,100,56,49,53,50,48,54>>),
      takerAssetData |-> Str(<<48,120,102,52,55,50,54,49,98,48,48,48,48,48,48,48,48,48,48,48,48,48,48,48,48,48,48,48,48,48,48,48,48,48,99,48,50,97,97,97,51,57,98,50,50,51,102,101,56,100,48,97,48,101,53,99,52,102,50,55,101,97,100,57,48,56,51,99,55,53,54,99,99,50>>),
      salt |-> Str(<<56,49,54,56,49,54,56,54,56,55,55,54,55,52,55,48,57,54,55,52,55,48,51,54,57,54,53,48,55,49,55,51,54,53,51,52,51,56,48,55,54,50,48,50,53,50,57,56,50,50,51,50,51,48,48,52,54,56,54,51,48,54,55,50,50,55,53,56,57,52,53,51,55,53,52,54,54>>),
      exchangeAddress |-> Str(<<48,120,54,49,57,51,53,99,98,100,100,48,50,50,56,55,98,53,49,49,49,49,57,100,100,98,49,49,97,101,98,52,50,102,49,53,57,51,98,55,101,102>>),
      feeRecipientAddress |-> Str(<<48,120,54,56,97,49,55,98,53,56,55,99,97,102,52,102,57,51,50,57,102,48,101,51,55,50,101,51,97,55,56,100,50,51,97,52,54,100,101,54,98,53>>),
      expirationTimeSeconds |-> Str(<<51,54,48,48,48,49,53,57,48,48,48,53,57,51,48>>),
      makerFeeAssetData |-> Str(<<48,120>>),
      chainId |-> Num(1),
      takerFeeAssetData |-> Str(<<48,120,102,52,55,50,54,49,98,48,48,48,48,48,48,48,48,48,48,48,48,48,48,48,48,48,48,48,48,48,48,48,48,48,99,48,50,97,97,97,51,57,98,50,50,51,102,101,56,100,48,97,48,101,53,99,52,102,50,55,101,97,100,57,48,56,51,99,55,53,54,99,99,50>>),
      hash |-> Str(<<48,120,57,52,55,55,57,56,101,53,54,102,50,54,99,54,54,56,52,57,52,52,57,53,97,98,51,50,50,101,101,97,49,97,97,97,51,52,57,53,57,51,50,100,99,55,50,99,99,102,50,102,54,55,56,98,53,53,100,55,51,99,99,50,48,54>>),
      remainingFillableTakerAssetAmount |-> Str(<<54,50,54,54,48,48,48,48,48,48,48,48,48,48,48,48,48,48,48,48>>)],
    \* 26: 0x95cfae1be89490ffe3d7286c828a3ac0866384dcff427f4541eb1c4ebc93f064
    [signature |-> Str(<<48,120,49,99,55,100,55,49,97,100,99,101,49,99,57,49,97,51,98,100,101,54,52,49,52,55,99,100,98,100,102,48,101,98,101,98,48,51,51,51,97,101,51,53,97,102,49,53,55,51,56,48,101,99,51,102,49,50,98,51,98,50,51,98,98,51,101,51,49,51,102,52,52,57,51,54,98,97,56,98,99,100,97,50,50,48,48,99,55,99,51,97,52,97,57,100,50,49,57,101,48,53,50,100,51,49,51,50,55,51,101,102,48,56,55,101,48,53,54,102,51,98,99,55,54,98,100,57,102,101,56,55,48,50>>),
      senderAddress |-> Str(<<48,120,48,48,48,48,48,48,48,48,48,48,48,48,48,48,48,48,48,48,48,48,48,48,48,48,48,48,48,48,48,48,48,48,48,48,48,48,48,48,48,48>>),
      makerAddress |-> Str(<<48,120,55,57,100,48,52,57,100,57,57,50,102,51,52,98,56,98,49,51,50,54,53,54,53,101,102,52,50,53,57,100,53,102,97,97,49,55,51,97,98,101>>),
      takerAddress |-> Str(<<48,120,48,48,48,48,48,48,48,48,48,48,48,48,48,48,48,48,48,48,48,48,48,48,48,48,48,48,48,48,48,48,48,48,48,48,48,48,48,48,48,48>>),
      makerFee |-> Str(<<48>>),
      takerFee |-> Str(<<48>>),
      makerAssetAmount |-> Str(<<49,48,48,48,48,48,48,48,48,48,48,48,48,48>>),
      takerAssetAmount |-> Str(<<49,48,48,48,48,48,48,48,48,48,48,48,48,48,48,48,48,48,48,48>>),
      makerAssetData |-> Str(<<48,120,102,52,55,50,54,49,98,48,48,48,48,48,48,48,48,48,48,48,48,48,48,48,48,48,48,48,48,48,48,48,48,48,49,51,48,100,97,51,101,49,57,56,102,48,57,50,102,101,50,97,54,101,54,99,50,49,56,57,51,100,99,55,55,55,52,54,100,55,101,52,48,54>>),
      takerAssetData |-> Str(<<48,120,102,52,55,50,54,49,98,48,48,48,48,48,48,48,48,48,48,48,48,48,48,48,48,48,48,48,48,48,48,48,48,48,99,48,50,97,97,97,51,57,98,50,50,51,102,101,56,100,48,97,48,101,53,99,52,102,50,55,101,97,100,57,48,56,51,99,55,53,54,99,99,50>>),
      salt |-> Str(<<51,54,49,52,51,50,55,49,57,55,56,51,48,50,57,57,50,49,57,55,50,57,57,56,51,53,50,50,52,51,49,48,50,52,56,48,56,53,48,49,56,50,49,55,57,54,50,57,52,52,52,48,53,55,57,52,54,57,56,51,50,51,50,56,54,49,52,48,54,54,52,56,54,50,52,55,56>>),
      exchangeAddress |-> Str(<<48,120,54,49,57,51,53,99,98,100,100,48,50,50,56,55,98,53,49,49,49,49,57,100,100,98,49,49,97,101,98,52,50,102,49,53,57,51,98,55,101,102>>),
      feeRecipientAddress |-> Str(<<48,120,52,53,50,52,98,97,97,57,56,102,57,97,51,98,57,100,101,99,53,55,99,97,97,101,55,54,51,51,57,51,54,101,102,57,54,98,100,55,48,56>>),
      expirationTimeSeconds |-> Str(<<49,53,57,52,57,55,55,57,55,54>>),
      makerFeeAssetData |-> Str(<<48,120>>),
      chainId |-> Num(1),
      takerFeeAssetData |-> Str(<<48,120>>),
      hash |-> Str(<<48,120,57,53,99,102,97,101,49,98,101,56,57,52,57,48,102,102,101,51,100,55,50,56,54,99,56,50,56,97,51,97,99,48,56,54,54,51,56,52,100,99,102,102,52,50,55,102,52,53,52,49,101,98,49,99,52,101,98,99,57,51,102,48,54,52>>),
      remainingFillableTakerAssetAmount |-> Str(<<49,48,48,48,48,48,48,48,48,48,48,48,48,48,48,48,48,48,48,48>>)],
    \* 27: 0x97eff10edaad0b69e888bd3455a4b4c7dc18b2de7e500832eb88023b11f5c178
    [signature |-> Str(<<48,120,49,98,52,98,57,97,102,99,48,51,52,51,97,54,99,49,100,53,49,54,53,102,50,48,98,54,97,55,54,98,54,48,51,102,57,53,54,55,101,53,50,56,49,53,55,48,53,53,98,101,99,101,51,101,97,54,49,102,52,48,54,98,57,50,98,57,49,98,48,48,48,56,56,50,98,102,101,48,55,57,97,57,100,51,54,57,51,54,54,50,100,54,99,52,51,98,57,102,54,53,48,54,97,48,53,54,48,54,56,48,55,97,97,99,50,52,102,53,57,49,49,97,55,102,52,98,57,54,57,99,48,50>>),
      senderAddress |-> Str(<<48,120,48,48,48,48,48,48,48,48,48,48,48,48,48,48,48,48,48,48,48,48,48,48,48,48,48,48,48,48,48,48,48,48,48,48,48,48,48,48,48,48>>),
      makerAddress |-> Str(<<48,120,97,49,55,56,53,51,50,54,101,56,50,101,52,50,56,48,51,55,55,49,97,97,57,101,98,99,101,57,57,48,49,102,55,51,55,98,100,97,57,55>>),
      takerAddress |-> Str(<<48,120,48,48,48,48,48,48,48,48,48,48,48,48,48,48,48,48,48,48,48,48,48,48,48,48,48,48,48,48,48,48,48,48,48,48,48,48,48,48,48,48>>),
      makerFee |-> Str(<<48>>),
      takerFee |-> Str(<<48>>),
      makerAssetAmount |-> Str(<<52,50,48,48,48,48,48,48,48,48,48,48,48,48,48,48>>),
      takerAssetAmount |-> Str(<<49,48,48,48,48>>),
      makerAssetData |-> Str(<<48,120,102,52,55,50,54,49,98,48,48,48,48,48,48,48,48,48,48,48,48,48,48,48,48,48,48,48,48,48,48,48,48,48,99,48,50,97,97,97,51,57,98,50,50,51,102,101,56,100,48,97,48,101,53,99,52,102,50,55,101,97,100,57,48,56,51,99,55,53,54,99,99,50>>),
      takerAssetData |-> Str(<<48,120,102,52,55,50,54,49,98,48,48,48,48,48,48,48,48,48,48,48,48,48,48,48,48,48,48,48,48,48,48,48,48,48,50,50,54,48,102,97,99,53,101,53,53,52,50,97,55,55,51,97,97,52,52,102,98,99,102,101,100,102,55,99,49,57,51,98,99,50,99,53,57,57>>),
      salt |-> Str(<<49,53,56,54,55,53,56,48,53,51,49,56,48>>),
      exchangeAddress |-> Str(<<48,120,54,49,57,51,53,99,98,100,100,48,50,50,56,55,98,53,49,49,49,49,57,100,100,98,49,49,97,101,98,52,50,102,49,53,57,51,98,55,101,102>>),
      feeRecipientAddress |-> Str(<<48,120,97,50,53,56,98,51,57,57,53,52,99,101,102,53,99,98,49,52,50,102,100,53,54,55,97,52,54,99,100,100,98,51,49,97,54,55,48,49,50,52>>),
      expirationTimeSeconds |-> Str(<<49,54,49,48,53,49,57,56,57,48>>),
      makerFeeAssetData |-> Str(<<48,120>>),
      chainId |-> Num(1),
      takerFeeAssetData |-> Str(<<48,120>>),
      hash |-> Str(<<48,120,57,55,101,102,102,49,48,101,100,97,97,100,48,98,54,57,101,56,56,56,98,100,51,52,53,53,97,52,98,52,99,55,100,99,49,56,98,50,100,101,55,101,53,48,48,56,51,50,101,98,56,56,48,50,51,98,49,49,102,53,99,49,55,56>>),
      remainingFillableTakerAssetAmount |-> Str(<<49,48,48,48,48>>)],
    \* 28: 0x9bfb31213aaff7585ccbd5406062aa14d4e8b5bca86f5edcac3a04dfd44fc25a
    [signature |-> Str(<<48,120,49,98,98,101,48,53,98,56,100,54,53,49,49,56,57,52,97,55,101,101,54,55,98,57,54,51,54,101,55,99,101,50,99,55,97,97,49,49,55,53,51,51,57,55,54,102,97,102,100,49,102,101,56,100,102,100,101,57,97,101,51,53,100,57,53,50,49,53,52,52,97,49,53,97,101,56,49,101,102,97,56,49,48,54,54,52,53,100,101,98,99,56,102,52,55,50,54,48,102,101,53,48,55,56,53,99,101,55,57,52,99,54,100,99,56,53,100,102,102,100,97,101,99,57,57,55,49,54,55,98,48,50>>),
      senderAddress |-> Str(<<48,120,48,48,48,48,48,48,48,48,48,48,48,48,48,48,48,48,48,48,48,48,48,48,48,48,48,48,48,48,48,48,48,48,48,48,48,48,48,48,48,48>>),
      makerAddress |-> Str(<<48,120,98,56,101,49,55,101,100,99,100,52,52,101,51,99,99,48,56,97,98,100,49,98,102,54,55,56,99,52,99,55,53,97,49,52,100,51,101,48,48,49>>),
      takerAddress |-> Str(<<48,120,48,48,48,48,48,48,48,48,48,48,48,48,48,48,48,48,48,48,48,48,48,48,48,48,48,48,48,48,48,48,48,48,48,48,48,48,48,48,48,48>>),
      makerFee |-> Str(<<48>>),
      takerFee |-> Str(<<48>>),
      makerAssetAmount |-> Str(<<49,48,48,48,48,48,48,48,48,48,48,48,48,48,48,48,48,48,48,48,48,48,48,48>>),
      takerAssetAmount |-> Str(<<52,48,48,48,48,48,48,48,48,48,48,48,48,48,48,48,48,48,48>>),
      makerAssetData |-> Str(<<48,120,102,52,55,50,54,49,98,48,48,48,48,48,48,48,48,48,48,48,48,48,48,48,48,48,48,48,48,48,48,48,48,48,101,51,52,51,50,52,53,100,101,57,50,49,56,49,98,99,48,54,98,97,53,99,100,49,49,53,50,99,55,48,53,97,50,99,53,102,51,101,50,102>>),
      takerAssetData |-> Str(<<48,120,102,52,55,50,54,49,98,48,48,48,48,48,48,48,48,48,48,48,48,48,48,48,48,48,48,48,48,48,48,48,48,48,99,48,50,97,97,97,51,57,98,50,50,51,102,101,56,100,48,97,48,101,53,99,52,102,50,55,101,97,100,57,48,56,51,99,55,53,54,99,99,50>>),
      salt |-> Str(<<56,55,55,48,52,49,52,53,51,51,57,48,55,52,51,56,55,50,48,51,57,52,50,49,48,56,53,48,54,53,54,50,53,55,50,57,50,55,55,52,51,48,49,50,50,49,52,57,56,54,54,57,55,50,50,48,55,56,49,49,56,56,51,54,50,50,48,49,53,56,53,57,49,52,48,51,48>>),
      exchangeAddress |-> Str(<<48,120,54,49,57,51,53,99,98,100,100,48,50,50,56,55,98,53,49,49,49,49,57,100,100,98,49,49,97,101,98,52,50,102,49,53,57,51,98,55,101,102>>),
      feeRecipientAddress |-> Str(<<48,120,52,53,50,52,98,97,97,57,56,102,57,97,51,98,57,100,101,99,53,55,99,97,97,101,55,54,51,51,57,51,54,101,102,57,54,98,100,55,48,56>>),
      expirationTimeSeconds |-> Str(<<49,54,50,51,52,51,55,54,49,52>>),
      makerFeeAssetData |-> Str(<<48,120>>),
      chainId |-> Num(1),
      takerFeeAssetData |-> Str(<<48,120>>),
      hash |-> Str(<<48,120,57,98,102,98,51,49,50,49,51,97,97,102,102,55,53,56,53,99,99,98,100,53,52,48,54,48,54,50,97,97,49,52,100,52,101,56,98,53,98,99,97,56,54,102,53,101,100,99,97,99,51,97,48,52,100,102,100,52,52,102,99,50,53,97>>),
      remainingFillableTakerAssetAmount |-> Str(<<52,48,48,48,48,48,48,48,48,48,48,48,48,48,48,48,48,48,48>>)],
    \* 29: 0x9db85ba13bc62ca25dd91616b6ac4a81e34c5831c31b4aa5258ad7b6d4cddf3d
    [signature |-> Str(<<48,120,49,98,101,55,48,99,52,52,49,53,97,56,57,50,101,99,99,53,54,97,51,52,50,54,53,98,97,51,54,100,57,100,100,99,57,53,51,97,98,51,100,55,55,100,54,98,99,101,54,99,52,51,101,101,98,100,50,102,52,56,101,101,52,54,56,53,49,98,98,99,50,51,100,100,56,49,99,102,98,102,50,97,102,98,54,57,52,49,53,51,57,98,55,100,57,55,55,49,98,101,54,51,50,98,101,50,54,54,56,100,52,51,100,52,100,50,50,56,57,100,101,49,57,48,102,51,51,101,51,57,48,51>>),
      senderAddress |-> Str(<<48,120,48,48,48,48,48,48,48,48,48,48,48,48,48,48,48,48,48,48,48,48,48,48,48,48,48,48,48,48,48,48,48,48,48,48,48,48,48,48,48,48>>),
      makerAddress |-> Str(<<48,120,53,54,49,55,56,97,48,100,53,102,51,48,49,98,97,102,54,99,102,51,101,49,99,100,53,51,100,57,56,54,51,52,51,55,51,52,53,98,102,57>>),
      takerAddress |-> Str(<<48,120,48,48,48,48,48,48,48,48,48,48,48,48,48,48,48,48,48,48,48,48,48,48,48,48,48,48,48,48,48,48,48,48,48,48,48,48,48,48,48,48>>),
      makerFee |-> Str(<<48>>),
      takerFee |-> Str(<<48>>),
      makerAssetAmount |-> Str(<<54,48,48,48,48,48,48,48,48,48,48,48,48,48,48,48,48,48,48,48,48,48>>),
      takerAssetAmount |-> Str(<<54,49,55,56,53,52,52,56,51,53,49,50,54,53,50,51,50,48,48,48,48,48>>),
      makerAssetData |-> Str(<<48,120,102,52,55,50,54,49,98,48,48,48,48,48,48,48,48,48,48,48,48,48,48,48,48,48,48,48,48,48,48,48,48,48,54,98,49,55,53,52,55,52,101,56,57,48,57,52,99,52,52,100,97,57,56,98,57,53,52,101,101,100,101,97,99,52,57,53,50,55,49,100,48,102>>),
      takerAssetData |-> Str(<<48,120,102,52,55,50,54,49,98,48,48,48,48,48,48,48,48,48,48,48,48,48,48,48,48,48,48,48,48,48,48,48,48,48,48,48,48,48,48,48,48,48,48,48,48,56,53,100,52,55,56,48,98,55,51,49,49,57,98,54,52,52,97,101,53,101,99,100,50,50,98,51,55,54>>),
      salt |-> Str(<<49,53,57,50,52,50,54,53,48,48,56,49,51>>),
      exchangeAddress |-> Str(<<48,120,54,49,57,51,53,99,98,100,100,48,50,50,56,55,98,53,49,49,49,49,57,100,100,98,49,49,97,101,98,52,50,102,49,53,57,51,98,55,101,102>>),
      feeRecipientAddress |-> Str(<<48,120,97,50,53,56,98,51,57,57,53,52,99,101,102,53,99,98,49,52,50,102,100,53,54,55,97,52,54,99,100,100,98,51,49,97,54,55,48,49,50,52>>),
      expirationTimeSeconds |-> Str(<<49,53,57,50,52,50,54,57,53,48>>),
      makerFeeAssetData |-> Str(<<48,120>>),
      chainId |-> Num(1),
      takerFeeAssetData |-> Str(<<48,120>>),
      hash |-> Str(<<48,120,57,100,98,56,53,98,97,49,51,98,99,54,50,99,97,50,53,100,100,57,49,54,49,54,98,54,97,99,52,97,56,49,101,51,52,99,53,56,51,49,99,51,49,98,52,97,97,53,50,53,56,97,100,55,98,54,100,52,99,100,100,102,51,100>>),
      remainingFillableTakerAssetAmount |-> Str(<<54,49,55,56,53,52,52,56,51,53,49,50,54,53,50,51,50,48,48,48,48,48>>)],
    \* 30: 0x9f33d40eccc0ad1074b7346e23d0b51c8103de279621d55a67489ce4c6691a41
    [signature |-> Str(<<48,120,49,98,100,56,102,98,101,53,102,102,55,100,57,48,99,97,54,55,54,51,49,54,102,51,54,100,56,98,56,52,54,51,51,55,51,53,48,99,100,99,54,49,48,97,54,54,98,99,56,51,53,53,102,101,51,55,54,51,52,52,97,52,54,55,97,57,55,101,57,52,55,49,53,48,57,101,98,55,57,49,102,53,54,97,53,50,50,98,53,56,99,53,51,55,102,49,53,99,54,51,101,99,55,99,57,101,101,98,50,54,50,97,49,97,97,55,55,49,99,100,57,57,101,48,55,57,102,49,100,99,48,50>>),
      senderAddress |-> Str(<<48,120,48,48,48,48,48,48,48,48,48,48,48,48,48,48,48,48,48,48,48,48,48,48,48,48,48,48,48,48,48,48,48,48,48,48,48,48,48,48,48,48>>),
      makerAddress |-> Str(<<48,120,56,57,101,50,97,101,98,99,52,53,52,53,53,54,102,54,48,102,50,98,54,102,97,99,100,49,55,52,54,98,99,98,53,56,102,48,98,52,102,51>>),
      takerAddress |-> Str(<<48,120,48,48,48,48,48,48,48,48,48,48,48,48,48,48,48,48,48,48,48,48,48,48,48,48,48,48,48,48,48,48,48,48,48,48,48,48,48,48,48,48>>),
      makerFee |-> Str(<<48>>),
      takerFee |-> Str(<<54,56,49,56,49,56,49,56,49,56,49,56,49,56,49,56,50>>),
      makerAssetAmount |-> Str(<<51,48,48,48,48,48,48,48,48,48,48,48,48,48,48,48,48,48,48>>),
      takerAssetAmount |-> Str(<<50,55,50,55,50,55,50,55,50,55,50,55,50,55,50,55,51,48,48,48>>),
      makerAssetData |-> Str(<<48,120,102,52,55,50,54,49,98,48,48,48,48,48,48,48,48,48,48,48,48,48,48,48,48,48,48,48,48,48,48,48,48,48,99,48,50,97,97,97,51,57,98,50,50,51,102,101,56,100,48,97,48,101,53,99,52,102,50,55,101,97,100,57,48,56,51,99,55,53,54,99,99,50>>),
      takerAssetData |-> Str(<<48,120,102,52,55,50,54,49,98,48,48,48,48,48,48,48,48,48,48,48,48,48,48,48,48,48,48,48,48,48,48,48,48,48,97,49,100,54,53,101,56,102,98,54,101,56,55,98,54,48,102,101,99,99,98,99,53,56,50,102,55,102,57,55,56,48,52,98,55,50,53,53,50,49>>),
      salt |-> Str(<<50,49,57,48,49,54,48,57,57,49,52,52,55,50,53,52,56,54,52,49,56,55,51,54,57,50,49,48,48,57,48,52,55,50,51,50,49,52,50,55,55,48,55,56,48,48,51,51,52,54,53,49,48,54,48,50,48,54,49,54,52,57,52,52,56,50,52,49,48,48,54,55,51,55,54,50,53>>),
      exchangeAddress |-> Str(<<48,120,54,49,57,51,53,99,98,100,100,48,50,50,56,55,98,53,49,49,49,49,57,100,100,98,49,49,97,101,98,52,50,102,49,53,57,51,98,55,101,102>>),
      feeRecipientAddress |-> Str(<<48,120,54,56,97,49,55,98,53,56,55,99,97,102,52,102,57,51,50,57,102,48,101,51,55,50,101,51,97,55,56,100,50,51,97,52,54,100,101,54,98,53>>),
      expirationTimeSeconds |-> Str(<<49,53,57,52,57,55,51,49,55,53>>),
      makerFeeAssetData |-> Str(<<48,120>>),
      chainId |-> Num(1),
      takerFeeAssetData |-> Str(<<48,120,102,52,55,50,54,49,98,48,48,48,48,48,48,48,48,48,48,48,48,48,48,48,48,48,48,48,48,48,48,48,48,48,97,49,100,54,53,101,56,102,98,54,101,56,55,98,54,48,102,101,99,99,98,99,53,56,50,102,55,102,57,55,56,48,52,98,55,50,53,53,50,49>>),
      hash |-> Str(<<48,120,57,102,51,51,100,52,48,101,99,99,99,48,97,100,49,48,55,52,98,55,51,52,54,101,50,51,100,48,98,53,49,99,56,49,48,51,100,101,50,55,57,54,50,49,100,53,53,97,54,55,52,56,57,99,101,52,99,54,54,57,49,97,52,49>>),
      remainingFillableTakerAssetAmount |-> Str(<<50,55,50,55,50,55,50,55,50,55,50,55,50,55,50,55,51,48,48,48>>)],
    \* 31: 0xa0d457097887bd74e09100a15e9c4523ffa5ffae6090119c0c2b2d47dabb0fcf
    [signature |-> Str(<<48,120,49,98,57,57,48,48,102,99,56,56,56,100,50,100,56,57,99,56,49,56,52,53,53,49,98,97,54,101,51,99,100,55,56,50,98,51,56,98,49,48,102,57,51,50,100,99,99,56,102,101,102,56,57,50,55,48,49,101,52,53,49,55,56,99,99,100,53,50,52,52,48,49,48,49,99,49,48,102,99,51,52,100,56,52,51,97,99,55,48,53,56,100,101,50,55,51,50,57,52,97,53,50,57,56,52,53,99,100,102,97,49,51,54,57,54,55,48,51,100,55,101,53,52,55,51,48,99,50,99,99,48,50>>),
      senderAddress |-> Str(<<48,120,48,48,48,48,48,48,48,48,48,48,48,48,48,48,48,48,48,48,48,48,48,48,48,48,48,48,48,48,48,48,48,48,48,48,48,48,48,48,48,48>>),
      makerAddress |-> Str(<<48,120,50,97,49,48,52,57,48,54,50,99,54,99,102,100,54,57,98,100,51,56,102,98,97,102,51,98,48,53,53,57,100,102,49,100,98,98,99,57,50,99>>),
      takerAddress |-> Str(<<48,120,48,48,48,48,48,48,48,48,48,48,48,48,48,48,48,48,48,48,48,48,48,48,48,48,48,48,48,48,48,48,48,48,48,48,48,48,48,48,48,48>>),
      makerFee |-> Str(<<48>>),
      takerFee |-> Str(<<57,55,53,48,48,48,48,48,48,48,48,48,48,48,48,48,48,48>>),
      makerAssetAmount |-> Str(<<49,48,48,48,48,48,48,48,48,48,48,48,48,48,48,48,48,48,48>>),
      takerAssetAmount |-> Str(<<51,57,48,48,48,48,48,48,48,48,48,48,48,48,48,48,48,48,48,48,48>>),
      makerAssetData |-> Str(<<48,120,102,52,55,50,54,49,98,48,48,48,48,48,48,48,48,48,48,48,48,48,48,48,48,48,48,48,48,48,48,48,48,48,99,48,50,97,97,97,51,57,98,50,50,51,102,101,56,100,48,97,48,101,53,99,52,102,50,55,101,97,100,57,48,56,51,99,55,53,54,99,99,50>>),
      takerAssetData |-> Str(<<48,120,102,52,55,50,54,49,98,48,48,48,48,48,48,48,48,48,48,48,48,48,48,48,48,48,48,48,48,48,48,48,48,48,98,52,101,102,100,56,53,99,49,57,57,57,57,100,56,52,50,53,49,51,48,52,98,100,97,57,57,101,57,48,98,57,50,51,48,48,98,100,57,51>>),
      salt |-> Str(<<50,51,52,52,54,56,56,54,48,55,54,53,57,51,56,57,50,48,55,55,48,57,51,49,51,48,55,55,49,54,52,56,54,53,53,49,54,48,51,56,53,52,54,49,48,55,55,51,48,54,48,49,49,56,55,49,49,50,53,53,49,48,48,51,48,54,54,51,49,49,54,52,57,51,52,54,54>>),
      exchangeAddress |-> Str(<<48,120,54,49,57,51,53,99,98,100,100,48,50,50,56,55,98,53,49,49,49,49,57,100,100,98,49,49,97,101,98,52,50,102,49,53,57,51,98,55,101,102>>),
      feeRecipientAddress |-> Str(<<48,120,54,56,97,49,55,98,53,56,55,99,97,102,52,102,57,51,50,57,102,48,101,51,55,50,101,51,97,55,56,100,50,51,97,52,54,100,101,54,98,53>>),
      expirationTimeSeconds |-> Str(<<49,53,57,52,49,51,54,56,53,55>>),
      makerFeeAssetData |-> Str(<<48,120>>),
      chainId |-> Num(1),
      takerFeeAssetData |-> Str(<<48,120,102,52,55,50,54,49,98,48,48,48,48,48,48,48,48,48,48,48,48,48,48,48,48,48,48,48,48,48,48,48,48,48,98,52,101,102,100,56,53,99,49,57,57,57,57,100,56,52,50,53,49,51,48,52,98,100,97,57,57,101,57,48,98,57,50,51,48,48,98,100,57,51>>),
      hash |-> Str(<<48,120,97,48,100,52,53,55,48,57,55,56,56,55,98,100,55,52,101,48,57,49,48,48,97,49,53,101,57,99,52,53,50,51,102,102,97,53,102,102,97,101,54,48,57,48,49,49,57,99,48,99,50,98,50,100,52,55,100,97,98,98,48,102,99,102>>),
      remainingFillableTakerAssetAmount |-> Str(<<51,57,48,48,48,48,48,48,48,48,48,48,48,48,48,48,48,48,48,48,48>>)],
    \* 32: 0xa0ff52a055379bcfc51420bbf0b633acbdd993508dca3c7ce3898f21bc939fc2
    [signature |-> Str(<<48,120,49,99,101,50,99,99,56,98,100,97,98,57,98,50,98,52,48,100,99,102,102,49,102,56,57,53,49,98,48,102,99,97,99,101,53,54,50,50,98,57,53,99,48,53,54,97,54,99,55,55,57,49,50,54,54,56,49,51,57,52,56,57,54,98,49,53,50,99,52,57,97,56,56,98,53,52,99,55,56,52,50,51,48,97,53,102,56,100,56,53,53,50,102,100,100,98,55,98,100,50,57,101,57,100,97,51,57,52,51,102,100,102,54,100,101,51,99,48,97,49,100,48,97,53,99,50,102,99,101,55,48,51>>),
      senderAddress |-> Str(<<48,120,48,48,48,48,48,48,48,48,48,48,48,48,48,48,48,48,48,48,48,48,48,48,48,48,48,48,48,48,48,48,48,48,48,48,48,48,48,48,48,48>>),
      makerAddress |-> Str(<<48,120,99,101,100,55,51,50,99,97,57,50,99,98,52,102,48,52,48,50,51,57,99,52,101,56,99,56,53,102,49,52,97,99,98,98,53,100,98,48,48,48>>),
      takerAddress |-> Str(<<48,120,48,48,48,48,48,48,48,48,48,48,48,48,48,48,48,48,48,48,48,48,48,48,48,48,48,48,48,48,48,48,48,48,48,48,48,48,48,48,48,48>>),
      makerFee |-> Str(<<48>>),
      takerFee |-> Str(<<48>>),
      makerAssetAmount |-> Str(<<49,51,50,48,48,48,48,48,48,48,48,48,48,48,48,48,48,48,48>>),
      takerAssetAmount |-> Str(<<54,48,48,48,48,48,48,48,48,48,48,48,48,48,48,48,48,48,48,48,48,48,48,48>>),
      makerAssetData |-> Str(<<48,120,102,52,55,50,54,49,98,48,48,48,48,48,48,48,48,48,48,48,48,48,48,48,48,48,48,48,48,48,48,48,48,48,99,48,50,97,97,97,51,57,98,50,50,51,102,101,56,100,48,97,48,101,53,99,52,102,50,55,101,97,100,57,48,56,51,99,55,53,54,99,99,50>>),
      takerAssetData |-> Str(<<48,120,102,52,55,50,54,49,98,48,48,48,48,48,48,48,48,48,48,48,48,48,48,48,48,48,48,48,48,48,48,48,48,48,57,54,48,98,50,51,54,97,48,55,99,102,49,50,50,54,54,51,99,52,51,48,51,51,53,48,54,48,57,97,54,54,97,55,98,50,56,56,99,48>>),
      salt |-> Str(<<49,53,57,49,55,49,55,51,52,56,48,53,57>>),
      exchangeAddress |-> Str(<<48,120,54,49,57,51,53,99,98,100,100,48,50,50,56,55,98,53,49,49,49,49,57,100,100,98,49,49,97,101,98,52,50,102,49,53,57,51,98,55,101,102>>),
      feeRecipientAddress |-> Str(<<48,120,97,50,53,56,98,51,57,57,53,52,99,101,102,53,99,98,49,52,50,102,100,53,54,55,97,52,54,99,100,100,98,51,49,97,54,55,48,49,50,52>>),
      expirationTimeSeconds |-> Str(<<49,53,57,52,51,48,57,49,54,51>>),
      makerFeeAssetData |-> Str(<<48,120>>),
      chainId |-> Num(1),
      takerFeeAssetData |-> Str(<<48,120>>),
      hash |-> Str(<<48,120,97,48,102,102,53,50,97,48,53,53,51,55,57,98,99,102,99,53,49,52,50,48,98,98,102,48,98,54,51,51,97,99,98,100,100,57,57,51,53,48,56,100,99,97,51,99,55,99,101,51,56,57,56,102,50,49,98,99,57,51,57,102,99,50>>),
      remainingFillableTakerAssetAmount |-> Str(<<54,48,48,48,48,48,48,48,48,48,48,48,48,48,48,48,48,48,48,48,48,48,48,48>>)],
    \* 33: 0xa41e9c5194be105d06025acaedd4768105253aa76dca1f516b5a59a8d885fd94
    [signature |-> Str(<<48,120,49,99,102,55,101,100,101,101,54,57,53,50,53,102,99,100,97,56,102,56,56,51,54,97,54,53,50,48,98,101,53,102,99,55,48,49,49,102,56,57,97,50,48,101,102,55,100,99,102,56,102,102,53,51,99,54,101,57,50,57,98,52,98,52,102,53,49,99,97,52,51,49,97,48,50,99,99,55,50,99,54,55,51,48,51,50,97,57,99,56,100,53,51,99,57,98,52,50,51,57,55,98,99,98,99,53,53,56,98,48,101,55,97,55,97,97,54,57,53,49,98,51,56,49,50,49,97,101,55,57,48,50>>),
      senderAddress |-> Str(<<48,120,48,48,48,48,48,48,48,48,48,48,48,48,48,48,48,48,48,48,48,48,48,48,48,48,48,48,48,48,48,48,48,48,48,48,48,48,48,48,48,48>>),
      makerAddress |-> Str(<<48,120,50,55,98,56,51,97,51,100,97,48,50,48,56,102,102,100,97,49,53,97,102,53,53,53,50,97,99,50,97,50,98,97,55,51,98,49,97,99,56,102>>),
      takerAddress |-> Str(<<48,120,48,48,48,48,48,48,48,48,48,48,48,48,48,48,48,48,48,48,48,48,48,48,48,48,48,48,48,48,48,48,48,48,48,48,48,48,48,48,48,48>>),
      makerFee |-> Str(<<48>>),
      takerFee |-> Str(<<48>>),
      makerAssetAmount |-> Str(<<49,48,48,48,48,48,48,48,48,48,48,48,48,48,48,48,48,48,48,48,48,48,48,48,48>>),
      takerAssetAmount |-> Str(<<49,48,48,48,48,48,48,48,48,48,48,48,48,48,48,48,48,48,48,48,48,48,48,48,48>>),
      makerAssetData |-> Str(<<48,120,102,52,55,50,54,49,98,48,48,48,48,48,48,48,48,48,48,48,48,48,48,48,48,48,48,48,48,48,48,48,48,48,98,56,48,49,49,50,101,53,49,54,100,97,98,99,97,99,54,97,98,52,54,54,53,102,49,98,100,54,53,48,57,57,54,52,48,51,49,53,54,99>>),
      takerAssetData |-> Str(<<48,120,102,52,55,50,54,49,98,48,48,48,48,48,48,48,48,48,48,48,48,48,48,48,48,48,48,48,48,48,48,48,48,48,54,54,102,100,57,55,97,55,56,100,56,56,53,52,102,101,99,52,52,53,99,100,49,99,56,48,97,48,55,56,57,54,98,48,98,52,56,53,49,102>>),
      salt |-> Str(<<52,49,50,53,51,54,53,48,48,57,52,48,50,50,56,57,48,49,54,53,51,54,51,52,51,57,54,56,57,49,53,55,48,48,49,56,52,54,53,55,48,54,57,49,57,55,55,48,56,57,50,51,57,49,48,56,54,52,53,51,52,49,50,54,56,50,51,51,53,56,57,49,57,51,50,48,53>>),
      exchangeAddress |-> Str(<<48,120,54,49,57,51,53,99,98,100,100,48,50,50,56,55,98,53,49,49,49,49,57,100,100,98,49,49,97,101,98,52,50,102,49,53,57,51,98,55,101,102>>),
      feeRecipientAddress |-> Str(<<48,120,52,53,50,52,98,97,97,57,56,102,57,97,51,98,57,100,101,99,53,55,99,97,97,101,55,54,51,51,57,51,54,101,102,57,54,98,100,55,48,56>>),
      expirationTimeSeconds |-> Str(<<49,53,57,52,56,51,48,52,55,55>>),
      makerFeeAssetData |-> Str(<<48,120>>),
      chainId |-> Num(1),
      takerFeeAssetData |-> Str(<<48,120>>),
      hash |-> Str(<<48,120,97,52,49,101,57,99,53,49,57,52,98,101,49,48,53,100,48,54,48,50,53,97,99,97,101,100,100,52,55,54,56,49,48,53,50,53,51,97,97,55,54,100,99,97,49,102,53,49,54,98,53,97,53,57,97,56,100,56,56,53,102,100,57,52>>),
      remainingFillableTakerAssetAmount |-> Str(<<49,48,48,48,48,48,48,48,48,48,48,48,48,48,48,48,48,48,48,48,48,48,48,48,48>>)],
    \* 34: 0xbc1bacf1c8a66d18a9123573872fb5e14dad6d82b0fe07aba4bbdf50aef1ca7a
    [signature |-> Str(<<48,120,49,99,98,56,51,101,102,49,100,51,51,56,100,57,56,97,97,54,48,50,101,102,53,56,52,57,55,98,100,55,52,97,101,51,102,49,99,100,102,50,57,97,97,101,102,52,50,48,99,98,51,57,97,99,101,102,52,52,55,48,54,56,55,56,99,50,50,53,48,99,51,99,97,56,50,97,55,49,102,100,50,100,50,53,97,49,100,100,98,100,52,52,51,48,52,101,57,101,98,56,57,51,52,100,102,97,51,48,49,55,48,102,51,97,52,53,56,97,55,99,101,99,49,56,56,54,57,48,54,100,48,50>>),
      senderAddress |-> Str(<<48,120,48,48,48,48,48,48,48,48,48,48,48,48,48,48,48,48,48,48,48,48,48,48,48,48,48,48,48,48,48,48,48,48,48,48,48,48,48,48,48,48>>),
      makerAddress |-> Str(<<48,120,48,51,53,101,98,48,99,56,52,97,48,98,51,101,101,98,56,100,102,48,56,51,57,101,98,51,51,48,98,100,101,102,57,57,48,49,48,56,97,51>>),
      takerAddress |-> Str(<<48,120,48,48,48,48,48,48,48,48,48,48,48,48,48,48,48,48,48,48,48,48,48,48,48,48,48,48,48,48,48,48,48,48,48,48,48,48,48,48,48,48>>),
      makerFee |-> Str(<<48>>),
      takerFee |-> Str(<<48>>),
      makerAssetAmount |-> Str(<<49,53,48,48,48,48>>),
      takerAssetAmount |-> Str(<<57,57,51,55,53,48,48,48,48,48,48,48,48,48,48,48,48,48,48,48,48>>),
      makerAssetData |-> Str(<<48,120,102,52,55,50,54,49,98,48,48,48,48,48,48,48,48,48,48,48,48,48,48,48,48,48,48,48,48,48,48,48,48,48,102,98,52,56,101,48,100,101,97,56,51,55,102,57,52,51,56,51,48,57,97,55,101,57,102,48,99,102,101,55,101,101,51,51,53,51,97,56,52,101>>),
      takerAssetData |-> Str(<<48,120,102,52,55,50,54,49,98,48,48,48,48,48,48,48,48,48,48,48,48,48,48,48,48,48,48,48,48,48,48,48,48,48,99,48,50,97,97,97,51,57,98,50,50,51,102,101,56,100,48,97,48,101,53,99,52,102,50,55,101,97,100,57,48,56,51,99,55,53,54,99,99,50>>),
      salt |-> Str(<<52,54,56,51,50,48,48,57,56,49,54,54,57,50,51,53,54,48,54,55,56,54,50,54,49,53,52,56,50,54,51,54,50,54,53,53,48,51,55,57,52,56,56,51,51,49,55,52,56,54,56,48,50,54,57,54,52,48,52,52,55,49,54,51,48,57,57,48,52,52,51,56,49,56,55,51,51>>),
      exchangeAddress |-> Str(<<48,120,54,49,57,51,53,99,98,100,100,48,50,50,56,55,98,53,49,49,49,49,57,100,100,98,49,49,97,101,98,52,50,102,49,53,57,51,98,55,101,102>>),
      feeRecipientAddress |-> Str(<<48,120,52,53,50,52,98,97,97,57,56,102,57,97,51,98,57,100,101,99,53,55,99,97,97,101,55,54,51,51,57,51,54,101,102,57,54,98,100,55,48,56>>),
      expirationTimeSeconds |-> Str(<<49,54,50,53,48,50,53,54,48,48>>),
      makerFeeAssetData |-> Str(<<48,120>>),
      chainId |-> Num(1),
      takerFeeAssetData |-> Str(<<48,120>>),
      hash |-> Str(<<48,120,98,99,49,98,97,99,102,49,99,56,97,54,54,100,49,56,97,57,49,50,51,53,55,51,56,55,50,102,98,53,101,49,52,100,97,100,54,100,56,50,98,48,102,101,48,55,97,98,97,52,98,98,100,102,53,48,97,101,102,49,99,97,55,97>>),
      remainingFillableTakerAssetAmount |-> Str(<<57,57,51,55,53,48,48,48,48,48,48,48,48,48,48,48,48,48,48,48,48>>)],
    \* 35: 0xdb4b545d55ba5c6dbd650fe09288267d1bc3e8b4639877f27cb661932a210646
    [signature |-> Str(<<48,120,49,98,49,57,53,56,55,102,100,102,100,52,97,57,57,48,52,102,56,50,99,55,53,55,51,57,55,99,99,99,49,102,51,48,51,100,98,50,48,53,53,100,50,98,53,99,98,102,54,51,51,102,48,102,99,51,48,54,48,102,99,100,49,52,99,101,53,99,52,100,51,100,50,52,52,101,57,101,99,56,98,52,57,102,100,98,49,54,100,51,97,52,49,102,52,54,100,54,50,51,100,50,99,102,100,55,52,99,56,98,101,54,51,102,98,50,98,102,100,50,53,97,52,54,99,57,102,57,51,101,48,50>>),
      senderAddress |-> Str(<<48,120,48,48,48,48,48,48,48,48,48,48,48,48,48,48,48,48,48,48,48,48,48,48,48,48,48,48,48,48,48,48,48,48,48,48,48,48,48,48,48,48>>),
      makerAddress |-> Str(<<48,120,102,55,49,102,48,49,98,98,48,99,48,99,98,48,55,51,57,54,48,51,99,53,53,57,53,48,56,56,52,97,53,54,57,48,55,55,50,54,55,54>>),
      takerAddress |-> Str(<<48,120,48,48,48,48,48,48,48,48,48,48,48,48,48,48,48,48,48,48,48,48,48,48,48,48,48,48,48,48,48,48,48,48,48,48,48,48,48,48,48,48>>),
      makerFee |-> Str(<<48>>),
      takerFee |-> Str(<<54,51,48,48,48,48,48,48,48,48,48,48,48,48,48,48>>),
      makerAssetAmount |-> Str(<<50,49,48,48,48,48,48,48,48,48,48,48,48,48,48,48,48,48,48,48,48,48,48,48,48,48>>),
      takerAssetAmount |-> Str(<<51,49,53,48,48,48,48,48,48,48,48,48,48,48,48,48,48,48,48>>),
      makerAssetData |-> Str(<<48,120,102,52,55,50,54,49,98,48,48,48,48,48,48,48,48,48,48,48,48,48,48,48,48,48,48,48,48,48,48,48,48,48,98,49,100,50,50,100,102,102,98,54,99,57,98,102,55,48,53,52,52,49,49,54,98,51,99,101,55,56,52,52,53,52,99,102,51,56,51,53,55,55>>),
      takerAssetData |-> Str(<<48,120,102,52,55,50,54,49,98,48,48,48,48,48,48,48,48,48,48,48,48,48,48,48,48,48,48,48,48,48,48,48,48,48,99,48,50,97,97,97,51,57,98,50,50,51,102,101,56,100,48,97,48,101,53,99,52,102,50,55,101,97,100,57,48,56,51,99,55,53,54,99,99,50>>),
      salt |-> Str(<<49,53,57,50,50,50,48,55,56,49,49,53,53>>),
      exchangeAddress |-> Str(<<48,120,54,49,57,51,53,99,98,100,100,48,50,50,56,55,98,53,49,49,49,49,57,100,100,98,49,49,97,101,98,52,50,102,49,53,57,51,98,55,101,102>>),
      feeRecipientAddress |-> Str(<<48,120,49,48,97,97,56,99,56,50,101,51,54,53,54,49,55,48,98,97,97,101,56,48,100,49,56,57,98,56,98,55,100,99,101,97,54,56,54,53,99,57>>),
      expirationTimeSeconds |-> Str(<<49,54,48,52,51,49,54,55,56,49>>),
      makerFeeAssetData |-> Str(<<48,120>>),
      chainId |-> Num(1),
      takerFeeAssetData |-> Str(<<48,120,102,52,55,50,54,49,98,48,48,48,48,48,48,48,48,48,48,48,48,48,48,48,48,48,48,48,48,48,48,48,48,48,99,48,50,97,97,97,51,57,98,50,50,51,102,101,56,100,48,97,48,101,53,99,52,102,50,55,101,97,100,57,48,56,51,99,55,53,54,99,99,50>>),
      hash |-> Str(<<48,120,100,98,52,98,53,52,53,100,53,53,98,97,53,99,54,100,98,100,54,53,48,102,101,48,57,50,56,56,50,54,55,100,49,98,99,51,101,56,98,52,54,51,57,56,55,55,102,50,55,99,98,54,54,49,57,51,50,97,50,49,48,54,52,54>>),
      remainingFillableTakerAssetAmount |-> Str(<<51,49,53,48,48,48,48,48,48,48,48,48,48,48,48,48,48,48,48>>)],
    \* 36: 0xebc4b679783d3b2526baafd50ea00cd93e3152fb5eab848ea53e492c8b00641c
    [signature |-> Str(<<48,120,49,98,53,99,99,98,52,98,98,97,100,50,55,56,48,102,54,97,50,51,54,55,48,56,98,51,100,49,52,49,51,100,97,51,98,49,97,49,97,55,48,54,101,54,50,97,53,52,54,50,52,97,97,51,51,56,102,101,52,56,48,53,50,52,56,98,52,53,53,99,55,50,98,52,102,97,53,50,48,97,56,101,101,51,49,100,49,54,102,99,102,100,57,49,48,97,48,52,100,97,51,52,56,100,57,50,98,53,97,53,101,49,57,51,98,102,102,56,50,101,56,49,57,52,98,97,48,52,54,49,48,50>>),
      senderAddress |-> Str(<<48,120,48,48,48,48,48,48,48,48,48,48,48,48,48,48,48,48,48,48,48,48,48,48,48,48,48,48,48,48,48,48,48,48,48,48,48,48,48,48,48,48>>),
      makerAddress |-> Str(<<48,120,100,50,102,54,101,50,51,101,53,49,53,102,54,55,52,97,54,102,52,100,53,50,102,99,101,55,57,54,50,101,50,101,48,48,53,48,55,57,56,102>>),
      takerAddress |-> Str(<<48,120,48,48,48,48,48,48,48,48,48,48,48,48,48,48,48,48,48,48,48,48,48,48,48,48,48,48,48,48,48,48,48,48,48,48,48,48,48,48,48,48>>),
      makerFee |-> Str(<<48>>),
      takerFee |-> Str(<<53,48,48,48,48,48,48,48,48,48,48,48,48,48,48,48>>),
      makerAssetAmount |-> Str(<<53,48,48,48,48,48,48,48,48,48,48,48,48,48,48,48,48>>),
      takerAssetAmount |-> Str(<<50,53,48,48,48,48,48,48,48,48,48,48,48,48,48,48,48,48,48>>),
      makerAssetData |-> Str(<<48,120,102,52,55,50,54,49,98,48,48,48,48,48,48,48,48,48,48,48,48,48,48,48,48,48,48,48,48,48,48,48,48,48,55,55,54,55,56,99,102,100,48,102,50,98,53,53,49,53,50,97,100,99,54,53,57,57,100,98,57,102,57,56,56,97,98,50,56,100,55,50,102,50>>),
      takerAssetData |-> Str(<<48,120,102,52,55,50,54,49,98,48,48,48,48,48,48,48,48,48,48,48,48,48,48,48,48,48,48,48,48,48,48,48,48,48,99,48,50,97,97,97,51,57,98,50,50,51,102,101,56,100,48,97,48,101,53,99,52,102,50,55,101,97,100,57,48,56,51,99,55,53,54,99,99,50>>),
      salt |-> Str(<<49,53,57,50,48,50,53,56,50,55,54,50,49>>),
      exchangeAddress |-> Str(<<48,120,54,49,57,51,53,99,98,100,100,48,50,50,56,55,98,53,49,49,49,49,57,100,100,98,49,49,97,101,98,52,50,102,49,53,57,51,98,55,101,102>>),
      feeRecipientAddress |-> Str(<<48,120,49,48,97,97,56,99,56,50,101,51,54,53,54,49,55,48,98,97,97,101,56,48,100,49,56,57,98,56,98,55,100,99,101,97,54,56,54,53,99,57>>),
      expirationTimeSeconds |-> Str(<<49,54,48,52,49,50,49,56,50,55>>),
      makerFeeAssetData |-> Str(<<48,120>>),
      chainId |-> Num(1),
      takerFeeAssetData |-> Str(<<48,120,102,52,55,50,54,49,98,48,48,48,48,48,48,48,48,48,48,48,48,48,48,48,48,48,48,48,48,48,48,48,48,48,99,48,50,97,97,97,51,57,98,50,50,51,102,101,56,100,48,97,48,101,53,99,52,102,50,55,101,97,100,57,48,56,51,99,55,53,54,99,99,50>>),
      hash |-> Str(<<48,120,101,98,99,52,98,54,55,57,55,56,51,100,51,98,50,53,50,54,98,97,97,102,100,53,48,101,97,48,48,99,100,57,51,101,51,49,53,50,102,98,53,101,97,98,56,52,56,101,97,53,51,101,52,57,50,99,56,98,48,48,54,52,49,99>>),
      remainingFillableTakerAssetAmount |-> Str(<<50,53,48,48,48,48,48,48,48,48,48,48,48,48,48,48,48,48,48>>)],
    \* 37: 0xedd6dbddca8f7b63d7fcbd6ba9dfb7b3d444fd0b633354bf0fd7fd7b8cfb1d8c
    [signature |-> Str(<<48,120,49,98,55,48,100,55,54,54,98,102,53,101,98,52,55,101,54,98,50,101,57,52,97,50,52,102,101,99,52,55,102,50,49,53,102,99,97,54,99,48,55,53,98,56,56,97,56,102,48,54,98,57,101,100,100,57,48,52,57,48,52,54,100,48,53,54,48,52,54,102,53,52,98,98,99,55,102,57,100,57,57,97,51,50,49,100,102,52,55,56,99,49,57,54,99,55,49,98,101,56,99,101,97,50,100,49,102,57,57,97,102,101,48,102,102,102,54,49,53,52,53,57,99,48,101,99,57,54,53,49,48,50>>),
      senderAddress |-> Str(<<48,120,48,48,48,48,48,48,48,48,48,48,48,48,48,48,48,48,48,48,48,48,48,48,48,48,48,48,48,48,48,48,48,48,48,48,48,48,48,48,48,48>>),
      makerAddress |-> Str(<<48,120,57,49,97,56,53,102,53,53,50,99,57,100,48,98,98,56,97,48,52,97,54,50,54,102,50,98,56,97,54,101,100,101,101,98,100,97,54,51,97,50>>),
      takerAddress |-> Str(<<48,120,48,48,48,48,48,48,48,48,48,48,48,48,48,48,48,48,48,48,48,48,48,48,48,48,48,48,48,48,48,48,48,48,48,48,48,48,48,48,48,48>>),
      makerFee |-> Str(<<48>>),
      takerFee |-> Str(<<51,48,48,48,48,48,48,48,48,48,48,48,48,48,48>>),
      makerAssetAmount |-> Str(<<49,48,48,48,48,48,48,48,48,48,48,48,48,48>>),
      takerAssetAmount |-> Str(<<49,48,48,48,48,48,48,48,48,48,48,48,48,48,48,48,48,48>>),
      makerAssetData |-> Str(<<48,120,102,52,55,50,54,49,98,48,48,48,48,48,48,48,48,48,48,48,48,48,48,48,48,48,48,48,48,48,48,48,48,48,51,52,98,56,53,97,50,55,101,102,54,102,48,54,99,53,51,54,100,56,101,53,52,57,98,57,97,97,99,54,54,98,100,56,97,102,51,51,51,53>>),
      takerAssetData |-> Str(<<48,120,102,52,55,50,54,49,98,48,48,48,48,48,48,48,48,48,48,48,48,48,48,48,48,48,48,48,48,48,48,48,48,48,99,48,50,97,97,97,51,57,98,50,50,51,102,101,56,100,48,97,48,101,53,99,52,102,50,55,101,97,100,57,48,56,51,99,55,53,54,99,99,50>>),
      salt |-> Str(<<49,53,56,57,52,51,49,52,54,48,49,48,48>>),
      exchangeAddress |-> Str(<<48,120,54,49,57,51,53,99,98,100,100,48,50,50,56,55,98,53,49,49,49,49,57,100,100,98,49,49,97,101,98,52,50,102,49,53,57,51,98,55,101,102>>),
      feeRecipientAddress |-> Str(<<48,120,53,50,54,53,98,100,101,50,55,102,53,55,101,55,51,56,98,101,54,99,49,102,54,97,98,51,53,52,52,101,56,50,99,100,99,57,50,97,56,102>>),
      expirationTimeSeconds |-> Str(<<49,54,48,49,53,50,55,52,54,48>>),
      makerFeeAssetData |-> Str(<<48,120>>),
      chainId |-> Num(1),
      takerFeeAssetData |-> Str(<<48,120,102,52,55,50,54,49,98,48,48,48,48,48,48,48,48,48,48,48,48,48,48,48,48,48,48,48,48,48,48,48,48,48,99,48,50,97,97,97,51,57,98,50,50,51,102,101,56,100,48,97,48,101,53,99,52,102,50,55,101,97,100,57,48,56,51,99,55,53,54,99,99,50>>),
      hash |-> Str(<<48,120,101,100,100,54,100,98,100,100,99,97,56,102,55,98,54,51,100,55,102,99,98,100,54,98,97,57,100,102,98,55,98,51,100,52,52,52,102,100,48,98,54,51,51,51,53,52,98,102,48,102,100,55,102,100,55,98,56,99,102,98,49,100,56,99>>),
      remainingFillableTakerAssetAmount |-> Str(<<49,48,48,48,48,48,48,48,48,48,48,48,48,48,48,48,48,48>>)],
    \* 38: 0xf3d0d6b5bc9603366f4f5e2414a2e6a609a6b234c73eed8a1f1d9a95cde9536c
    [signature |-> Str(<<48,120,97,55,55,101,52,49,51,101,100,101,97,101,102,50,100,51,100,53,52,98,48,98,98,52,56,55,99,55,57,54,52,51,99,99,98,98,98,53,99,97,57,56,48,52,102,102,100,52,55,48,51,53,99,54,48,56,97,99,51,98,48,54,54,51,49,54,97,50,50,55,98,55,100,54,98,97,53,51,101,57,101,52,55,99,49,97,53,57,55,98,52,56,102,50,50,98,53,52,101,54,52,57,50,101,57,51,98,52,101,98,55,51,54,55,99,99,102,55,48,56,99,48,101,99,51,99,48,101,49,98,48,55>>),
      senderAddress |-> Str(<<48,120,48,48,48,48,48,48,48,48,48,48,48,48,48,48,48,48,48,48,48,48,48,48,48,48,48,48,48,48,48,48,48,48,48,48,48,48,48,48,48,48>>),
      makerAddress |-> Str(<<48,120,97,51,97,53,102,100,98,49,50,97,99,54,51,101,97,102,102,50,56,54,100,55,98,98,100,49,57,54,102,57,100,52,52,48,100,55,53,54,53,51>>),
      takerAddress |-> Str(<<48,120,48,48,48,48,48,48,48,48,48,48,48,48,48,48,48,48,48,48,48,48,48,48,48,48,48,48,48,48,48,48,48,48,48,48,48,48,48,48,48,48>>),
      makerFee |-> Str(<<48>>),
      takerFee |-> Str(<<48>>),
      makerAssetAmount |-> Str(<<51,48,48,48,48,48,48,48,48,48,48,48,48,48,48,48,48,48>>),
      takerAssetAmount |-> Str(<<51,48,48,48,48,48,48,48,48,48,48,48,48,48,48,48,48,48>>),
      makerAssetData |-> Str(<<48,120,57,52,99,102,99,100,100,55,48,48,48,48,48,48,48,48,48,48,48,48,48,48,48,48,48,48,48,48,48,48,48,48,48,48,48,48,48,48,48,48,48,48,48,48,48,48,48,48,48,48,48,48,48,48,48,48,48,48,48,48,48,48,48,48,48,48,48,48,48,48,52,48,48,48,48,48,48,48,48,48,48,48,48,48,48,48,48,48,48,48,48,48,48,48,48,48,48,48,48,48,48,48,48,48,48,48,48,48,48,48,48,48,48,48,48,48,48,48,48,48,48,48,48,48,48,48,48,48,48,48,48,48,48,48,99,48,48,48,48,48,48,48,48,48,48,48,48,48,48,48,48,48,48,48,48,48,48,48,48,48,48,48,48,48,48,48,48,48,48,48,48,48,48,48,48,48,48,48,48,48,48,48,48,48,48,48,48,48,48,48,48,48,48,48,48,48,48,48,48,51,48,48,48,48,48,48,48,48,48,48,48,48,48,48,48,48,48,48,48,48,48,48,48,48,48,48,48,48,48,48,48,48,48,48,48,48,48,48,48,48,48,48,48,48,48,48,48,48,48,48,48,48,48,48,48,48,48,48,48,48,48,48,48,49,48,48,48,48,48,48,48,48,48,48,48,48,48,48,48,48,48,48,48,48,48,48,48,48,48,48,48,48,48,48,48,48,48,48,48,48,48,48,48,48,48,48,48,48,48,48,48,48,48,48,48,48,48,48,48,48,48,48,48,48,48,48,48,48,48,48,48,48,48,48,48,48,48,48,48,48,48,48,48,48,48,48,48,48,48,48,48,48,48,48,48,48,48,48,48,48,48,48,48,48,48,48,48,48,48,48,48,48,48,48,48,48,48,48,48,48,48,48,48,48,48,48,48,48,48,48,48,48,48,48,48,48,48,48,48,48,48,48,48,48,48,48,48,48,48,48,48,48,48,48,48,48,48,48,48,48,48,48,48,48,48,48,48,48,48,48,48,48,48,48,48,48,48,48,48,48,48,48,48,48,48,48,48,48,48,48,48,48,48,48,48,51,48,48,48,48,48,48,48,48,48,48,48,48,48,48,48,48,48,48,48,48,48,48,48,48,48,48,48,48,48,48,48,48,48,48,48,48,48,48,48,48,48,48,48,48,48,48,48,48,48,48,48,48,48,48,48,48,48,48,48,48,48,48,54,48,48,48,48,48,48,48,48,48,48,48,48,48,48,48,48,48,48,48,48,48,48,48,48,48,48,48,48,48,48,48,48,48,48,48,48,48,48,48,48,48,48,48,48,48,48,48,48,48,48,48,48,48,48,48,48,48,48,48,48,48,48,49,99,48,48,48,48,48,48,48,48,48,48,48,48,48,48,48,48,48,48,48,48,48,48,48,48,48,48,48,48,48,48,48,48,48,48,48,48,48,48,48,48,48,48,48,48,48,48,48,48,48,48,48,48,48,48,48,48,48,48,48,48,48,48,50,50,48,48,48,48,48,48,48,48,48,48,48,48,48,48,48,48,48,48,48,48,48,48,48,48,48,48,48,48,48,48,48,48,48,48,48,48,48,48,48,48,48,48,48,48,48,48,48,48,48,48,48,48,48,48,48,48,48,48,48,48,48,48,49,50,52,97,55,99,98,53,102,98,55,48,48,48,48,48,48,48,48,48,48,48,48,48,48,48,48,48,48,48,48,48,48,48,48,52,50,57,101,97,49,50,100,102,56,99,51,97,98,53,52,49,51,48,50,50,100,52,51,101,98,48,52,99,57,50,52,48,48,50,57,97,102,50,100,48,48,48,48,48,48,48,48,48,48,48,48,48,48,48,48,48,48,48,48,48,48,48,48,48,48,48,48,48,48,48,48,48,48,48,48,48,48,48,48,48,48,48,48,48,48,48,48,48,48,48,48,48,48,48,48,48,48,48,48,48,48,56,48,48,48,48,48,48,48,48,48,48,48,48,48,48,48,48,48,48,48,48,48,48,48,48,48,48,48,48,48,48,48,48,48,48,48,48,48,48,48,48,48,48,48,48,48,48,48,48,48,48,48,48,48,48,48,48,48,48,48,48,48,48,48,99,48,48,48,48,48,48,48,48,48,48,48,48,48,48,48,48,48,48,48,48,48,48,48,48,48,48,48,48,48,48,48,48,48,48,48,48,48,48,48,48,48,48,48,48,48,48,48,48,48,48,48,48,48,48,48,48,48,48,48,48,48,48,49,48,48,48,48,48,48,48,48,48,48,48,48,48,48,48,48,48,48,48,48,48,48,48,48,48,48,48,48,48,48,48,48,48,48,48,48,48,48,48,48,48,48,48,48,48,48,48,48,48,48,48,48,48,48,48,48,48,48,48,48,48,48,48,48,48,49,54,57,48,51,99,49,57,49,53,49,98,55,102,53,101,99,56,51,57,48,54,101,56,98,53,98,98,49,51,102,101,50,55,55,53,57,57,98,102,98,48,48,48,48,48,48,48,48,48,48,48,48,48,48,48,48,48,48,50,102,48,49,48,48,48,48,48,48,48,48,48,48,48,48,48,48,48,48,48,48,48,48,48,48,48,48,48,48,48,48,48,48,48,48,48,48,48,48,48,48,48,48,48,48,48,48,48,48,48,48,48,48,48,48,48,48,48,48,48,48,48,48,48,48,48,48,48,49,48,48,48,48,48,48,48,48,48,48,48,48,48,48,48,48,48,48,48,48,48,48,48,48,48,48,48,48,48,48,48,48,48,48,48,48,48,48,48,48,48,48,48,48,48,48,48,48,48,48,48,48,48,48,48,48,48,48,48,48,48,48,48,49,48,48,48,48,48,48,48,48,48,48,48,48,48,48,48,48,48,48,48,48,48,48,48,48,48,48,48,48,48,48,48,48,48,48,48,48,48,48,48,48,48,48,48,48,48,48,48,48,48,48,48,48,48,48,48,48,48,48,48,48,48,48,48,48,48,48,48,48,48,48,48,48,48,48,48,48,48,48,48,48,48,48,48,48,48,48,48,48,48,48,48,48,48,48,48,48,48,48,48,48,48,48,48,48,48,48,48,48,48,48,48,48,48,48,48,48,48,48,48,48,48,48,48,48,48,48,48,48,48,48,48,48,48,48,48,48,48,48,48,48,48,48,48,48,48,48,48,48,48,48,48,48,48,48,48,48,48,48,48,48,48,48,48,48,48,48,48,48,48,48,48,48,48,48,48,48,48,48,48,48,48,48,50,52,102,52,55,50,54,49,98,48,48,48,48,48,48,48,48,48,48,48,48,48,48,48,48,48,48,48,48,48,48,48,48,48,54,98,49,55,53,52,55,52,101,56,57,48,57,52,99,52,52,100,97,57,56,98,57,53,52,101,101,100,101,97,99,52,57,53,50,55,49,100,48,102,48,48,48,48,48,48,48,48,48,48,48,48,48,48,48,48,48,48,48,48,48,48,48,48,48,48,48,48,48,48,48,48,48,48,48,48,48,48,48,48,48,48,48,48,48,48,48,48,48,48,48,48,48,48,48,48,48,48,48,48,48,48,48,48,48,48,48,48,48,48,48,48,48,48,48,48,48,48,48,48,48,48,48,48,48,48,48,48,48,48,48,48,48,48,48,48,48,48,48,48,48,48,48,48,48,48,48,48,48,48,48,48,48,48,48,48,48,48,101,52,97,55,99,98,53,102,98,55,48,48,48,48,48,48,48,48,48,48,48,48,48,48,48,48,48,48,48,48,48,48,48,48,48,102,102,98,98,54,99,97,100,97,52,52,101,48,52,57,99,101,54,51,53,54,56,54,99,52,50,51,97,53,100,52,54,55,97,48,49,98,55,98,48,48,48,48,48,48,48,48,48,48,48,48,48,48,48,48,48,48,48,48,48,48,48,48,48,48,48,48,48,48,48,48,48,48,48,48,48,48,48,48,48,48,48,48,48,48,48,48,48,48,48,48,48,48,48,48,48,48,48,48,48,48,56,48,48,48,48,48,48,48,48,48,48,48,48,48,48,48,48,48,48,48,48,48,48,48,48,48,48,48,48,48,48,48,48,48,48,48,48,48,48,48,48,48,48,48,48,48,48,48,48,48,48,48,48,48,48,48,48,48,48,48,48,48,48,48,97,48,48,48,48,48,48,48,48,48,48,48,48,48,48,48,48,48,48,48,48,48,48,48,48,48,48,48,48,48,48,48,48,48,48,48,48,48,48,48,48,48,48,48,48,48,48,48,48,48,48,48,48,48,48,48,48,48,48,48,48,48,48,48,99,48,48,48,48,48,48,48,48,48,48,48,48,48,48,48,48,48,48,48,48,48,48,48,48,48,48,48,48,48,48,48,48,48,48,48,48,48,48,48,48,48,48,48,48,48,48,48,48,48,48,48,48,48,48,48,48,48,48,48,48,48,48,48,48,48,48,48,48,48,48,48,48,48,48,48,48,48,48,48,48,48,48,48,48,48,48,48,48,48,48,48,48,48,48,48,48,48,48,48,48,48,48,48,48,48,48,48,48,48,48,48,48,48,48,48,48,48,48,48,48,48,48,48,48,48,48,48,48,48,48,48,48,48,48,48,48,48,48,48,48,48,48,48,48,48,48,48,48,48,48,48,48,48,48,48,48,48,48,48,48,48,48,48,48,48,48,48,48,48,48,48,48,48,48,48,48,48,48,48,48,48,48,48,48,48,48,48,48,48,48,48,48,48,48,48,48,48,48,48,48,48,48,48,48,48,48,48,48,48,48,48,48,48,48,48,48,48,48,48,48,48,48,48,48,48,48,48,48,48,48,48,48,48,48,48,48,48,48,48,48,48,48,48,48,48,48,48,48,48>>),
      takerAssetData |-> Str(<<48,120,97,55,99,98,53,102,98,55,48,48,48,48,48,48,48,48,48,48,48,48,48,48,48,48,48,48,48,48,48,48,48,48,52,50,57,101,97,49,50,100,102,56,99,51,97,98,53,52,49,51,48,50,50,100,52,51,101,98,48,52,99,57,50,52,48,48,50,57,97,102,50,100,48,48,48,48,48,48,48,48,48,48,48,48,48,48,48,48,48,48,48,48,48,48,48,48,48,48,48,48,48,48,48,48,48,48,48,48,48,48,48,48,48,48,48,48,48,48,48,48,48,48,48,48,48,48,48,48,48,48,48,48,48,48,56,48,48,48,48,48,48,48,48,48,48,48,48,48,48,48,48,48,48,48,48,48,48,48,48,48,48,48,48,48,48,48,48,48,48,48,48,48,48,48,48,48,48,48,48,48,48,48,48,48,48,48,48,48,48,48,48,48,48,48,48,48,48,48,97,48,48,48,48,48,48,48,48,48,48,48,48,48,48,48,48,48,48,48,48,48,48,48,48,48,48,48,48,48,48,48,48,48,48,48,48,48,48,48,48,48,48,48,48,48,48,48,48,48,48,48,48,48,48,48,48,48,48,48,48,48,48,48,99,48,48,48,48,48,48,48,48,48,48,48,48,48,48,48,48,48,48,48,48,48,48,48,48,48,48,48,48,48,48,48,48,48,48,48,48,48,48,48,48,48,48,48,48,48,48,48,48,48,48,48,48,48,48,48,48,48,48,48,48,48,48,48,48,48,48,48,48,48,48,48,48,48,48,48,48,48,48,48,48,48,48,48,48,48,48,48,48,48,48,48,48,48,48,48,48,48,48,48,48,48,48,48,48,48,48,48,48,48,48,48,48,48,48,48,48,48,48,48,48,48,48,48,48,48,48,48,48,48,48,48,48,48,48,48,48,48,48,48,48,48,48,48,48,48,48,48,48,48,48,48,48,48,48,48,48,48,48,48,48,48,48,48,48,48,48,48,48,48,48,48,48,48,48,48,48,48,48,48,48,48,48,48,48,48,48,48,48,48,48,48,48,48>>),
      salt |-> Str(<<49,53,57,49,55,50,56,53,55,55,56,49,49>>),
      exchangeAddress |-> Str(<<48,120,54,49,57,51,53,99,98,100,100,48,50,50,56,55,98,53,49,49,49,49,57,100,100,98,49,49,97,101,98,52,50,102,49,53,57,51,98,55,101,102>>),
      feeRecipientAddress |-> Str(<<48,120,48,48,48,48,48,48,48,48,48,48,48,48,48,48,48,48,48,48,48,48,48,48,48,48,48,48,48,48,48,48,48,48,48,48,48,48,48,48,48,48>>),
      expirationTimeSeconds |-> Str(<<49,54,50,51,50,56,54,49,55,55>>),
      makerFeeAssetData |-> Str(<<48,120>>),
      chainId |-> Num(1),
      takerFeeAssetData |-> Str(<<48,120>>),
      hash |-> Str(<<48,120,102,51,100,48,100,54,98,53,98,99,57,54,48,51,51,54,54,102,52,102,53,101,50,52,49,52,97,50,101,54,97,54,48,57,97,54,98,50,51,52,99,55,51,101,101,100,56,97,49,102,49,100,57,97,57,53,99,100,101,57,53,51,54,99>>),
      remainingFillableTakerAssetAmount |-> Str(<<49,48,48,48,48,48,48,48,48,48,48,48,48,48,48,48,48,48>>)],
    \* 39: 0xf92788011f74d725ab903ad6314fd79a31a65c74c15458c2728abb0d2c5833cd
    [signature |-> Str(<<48,120,49,99,102,50,101,99,56,55,49,53,49,101,97,101,55,51,49,54,52,102,102,54,52,97,98,56,100,102,50,48,48,54,99,49,102,50,101,51,101,52,102,51,99,50,51,53,98,51,99,99,101,49,99,100,55,99,97,54,102,48,98,50,98,55,100,101,55,100,51,51,99,102,97,50,102,51,53,56,53,49,51,98,97,100,54,48,55,97,49,53,99,51,50,56,57,101,50,50,98,102,55,48,99,53,97,97,48,56,102,100,102,49,48,57,55,49,48,49,53,54,55,52,48,51,53,50,55,100,100,101,48,50>>),
      senderAddress |-> Str(<<48,120,48,48,48,48,48,48,48,48,48,48,48,48,48,48,48,48,48,48,48,48,48,48,48,48,48,48,48,48,48,48,48,48,48,48,48,48,48,48,48,48>>),
      makerAddress |-> Str(<<48,120,57,57,56,52,57,55,102,102,99,54,52,50,52,48,100,54,97,55,48,99,51,56,101,53,52,52,53,50,49,100,48,57,100,99,100,50,51,50,57,51>>),
      takerAddress |-> Str(<<48,120,48,48,48,48,48,48,48,48,48,48,48,48,48,48,48,48,48,48,48,48,48,48,48,48,48,48,48,48,48,48,48,48,48,48,48,48,48,48,48,48>>),
      makerFee |-> Str(<<48>>),
      takerFee |-> Str(<<48>>),
      makerAssetAmount |-> Str(<<49,50,54,48,48,57,57,55,50>>),
      takerAssetAmount |-> Str(<<49,51,51,48,48,48,48,48,48,48,48,48,48,48,48,48,48,48,48,48,48>>),
      makerAssetData |-> Str(<<48,120,102,52,55,50,54,49,98,48,48,48,48,48,48,48,48,48,48,48,48,48,48,48,48,48,48,48,48,48,48,48,48,48,97,48,98,56,54,57,57,49,99,54,50,49,56,98,51,54,99,49,100,49,57,100,52,97,50,101,57,101,98,48,99,101,51,54,48,54,101,98,52,56>>),
      takerAssetData |-> Str(<<48,120,102,52,55,50,54,49,98,48,48,48,48,48,48,48,48,48,48,48,48,48,48,48,48,48,48,48,48,48,48,48,48,48,99,48,49,49,97,55,51,101,101,56,53,55,54,102,98,52,54,102,53,101,49,99,53,55,53,49,99,97,51,98,57,102,101,48,97,102,50,97,54,102>>),
      salt |-> Str(<<49,53,57,50,52,50,54,56,51,52,50,49,56>>),
      exchangeAddress |-> Str(<<48,120,54,49,57,51,53,99,98,100,100,48,50,50,56,55,98,53,49,49,49,49,57,100,100,98,49,49,97,101,98,52,50,102,49,53,57,51,98,55,101,102>>),
      feeRecipientAddress |-> Str(<<48,120,49,48,48,48,48,48,48,48,48,48,48,48,48,48,48,48,48,48,48,48,48,48,48,48,48,48,48,48,48,48,48,48,48,48,48,48,48,48,49,49>>),
      expirationTimeSeconds |-> Str(<<49,53,57,50,52,50,55,52,51,52>>),
      makerFeeAssetData |-> Str(<<48,120>>),
      chainId |-> Num(1),
      takerFeeAssetData |-> Str(<<48,120>>),
      hash |-> Str(<<48,120,102,57,50,55,56,56,48,49,49,102,55,52,100,55,50,53,97,98,57,48,51,97,100,54,51,49,52,102,100,55,57,97,51,49,97,54,53,99,55,52,99,49,53,52,53,56,99,50,55,50,56,97,98,98,48,100,50,99,53,56,51,51,99,100>>),
      remainingFillableTakerAssetAmount |-> Str(<<49,51,51,48,48,48,48,48,48,48,48,48,48,48,48,48,48,48,48,48,48>>)],
    \* 40: 0xfe198638aecf1f9c0ebb028bd66b2ea02ceebcb3913ed644f246a81a71ada863
    [signature |-> Str(<<48,120,49,98,98,49,101,101,102,53,100,51,48,98,50,57,53,101,56,97,102,54,55,57,56,48,102,50,50,51,97,52,53,97,49,101,48,49,50,54,101,99,53,57,49,52,56,54,53,49,101,99,101,57,56,50,48,55,54,100,54,98,57,51,54,98,102,102,54,51,55,55,98,54,48,48,55,50,97,101,99,50,54,48,101,52,98,52,55,98,49,55,56,54,101,99,101,52,56,53,100,54,100,54,100,98,51,101,99,55,54,53,53,100,100,54,98,48,49,55,100,102,57,54,101,52,56,48,52,100,100,101,48,50>>),
      senderAddress |-> Str(<<48,120,48,48,48,48,48,48,48,48,48,48,48,48,48,48,48,48,48,48,48,48,48,48,48,48,48,48,48,48,48,48,48,48,48,48,48,48,48,48,48,48>>),
      makerAddress |-> Str(<<48,120,98,102,50,100,102,53,54,54,51,102,99,57,99,100,53,49,56,52,51,100,52,97,99,53,99,99,98,50,56,99,100,102,57,50,100,55,55,51,100,53>>),
      takerAddress |-> Str(<<48,120,48,48,48,48,48,48,48,48,48,48,48,48,48,48,48,48,48,48,48,48,48,48,48,48,48,48,48,48,48,48,48,48,48,48,48,48,48,48,48,48>>),
      makerFee |-> Str(<<48>>),
      takerFee |-> Str(<<48>>),
      makerAssetAmount |-> Str(<<51,50,51,50,50,48,48,48,48,48,48,48,48,48,48,48,48,48,48,48,48,48,48>>),
      takerAssetAmount |-> Str(<<49,48,48,49,57,56,50,48,48,48,48,48,48,48,48,48,48,48,48>>),
      makerAssetData |-> Str(<<48,120,102,52,55,50,54,49,98,48,48,48,48,48,48,48,48,48,48,48,48,48,48,48,48,48,48,48,48,48,48,48,48,48,55,54,53,52,48,98,48,48,53,53,56,55,98,54,49,52,54,98,51,102,50,51,97,54,98,99,57,55,97,54,101,54,50,48,97,51,101,54,51,57>>),
      takerAssetData |-> Str(<<48,120,102,52,55,50,54,49,98,48,48,48,48,48,48,48,48,48,48,48,48,48,48,48,48,48,48,48,48,48,48,48,48,48,99,48,50,97,97,97,51,57,98,50,50,51,102,101,56,100,48,97,48,101,53,99,52,102,50,55,101,97,100,57,48,56,51,99,55,53,54,99,99,50>>),
      salt |-> Str(<<55,57,53,48,56,54,48,53,56,52,50,56,54,52,51,52,50,49,49,48,50,57,55,50,54,48,53,50,57,52,48,49,51,57,52,52,50,51,53,57,57,50,51,50,54,56,53,49,49,55,54,50,49,48,51,48,50,50,53,50,52,50,48,49,56,53,52,51,50,52,55,56,54,55,55,49,52>>),
      exchangeAddress |-> Str(<<48,120,54,49,57,51,53,99,98,100,100,48,50,50,56,55,98,53,49,49,49,49,57,100,100,98,49,49,97,101,98,52,50,102,49,53,57,51,98,55,101,102>>),
      feeRecipientAddress |-> Str(<<48,120,52,53,50,52,98,97,97,57,56,102,57,97,51,98,57,100,101,99,53,55,99,97,97,101,55,54,51,51,57,51,54,101,102,57,54,98,100,55,48,56>>),
      expirationTimeSeconds |-> Str(<<49,53,57,51,50,49,56,48,52,50>>),
      makerFeeAssetData |-> Str(<<48,120>>),
      chainId |-> Num(1),
      takerFeeAssetData |-> Str(<<48,120>>),
      hash |-> Str(<<48,120,102,101,49,57,56,54,51,56,97,101,99,102,49,102,57,99,48,101,98,98,48,50,56,98,100,54,54,98,50,101,97,48,50,99,101,101,98,99,98,51,57,49,51,101,100,54,52,52,102,50,52,54,97,56,49,97,55,49,97,100,97,56,54,51>>),
      remainingFillableTakerAssetAmount |-> Str(<<49,48,48,49,57,56,50,48,48,48,48,48,48,48,48,48,48,48,48>>)]
    >>

------------------------------------------------------------------------------
(* Stores.  The resolvers read the module constant mockOrders.  Spec runs   *)
(* them on every short store of orders with pairwise different hashes (the *)
(* hash identifies an order), SpecMock on mockOrders itself.               *)

\* "0x1a", "0x1b", "0xa0": the hashes of the short stores; "0xff": no order's.
HashA == Str(<<48, 120, 49, 97>>)
HashB == Str(<<48, 120, 49, 98>>)
HashC == Str(<<48, 120, 97, 48>>)
HashNone == Str(<<48, 120, 102, 102>>)
Hashes == {HashA, HashB, HashC}

\* "9" and "10": shorter is not smaller.
Amount9 == Str(<<57>>)
Amount10 == Str(<<49, 48>>)
Amounts == {Amount9, Amount10}

\* An OrderWithMetadata of the short stores: the 19 fields of the interface,
\* every field but hash and makerAssetAmount with one fixed value.
shortOrder(hash, makerAssetAmount) ==
    [chainId |-> Num(1),
     exchangeAddress |-> Str(<<48, 120, 54, 49>>),
     makerAddress |-> Str(<<48, 120, 100, 57>>),
     makerAssetData |-> Str(<<48, 120, 102, 52>>),
     makerAssetAmount |-> makerAssetAmount,
     makerFeeAssetData |-> Str(<<48, 120>>),
     makerFee |-> Str(<<48>>),
     takerAddress |-> Str(<<48, 120, 48, 48>>),
     takerAssetData |-> Str(<<48, 120, 97, 55>>),
     takerAssetAmount |-> Str(<<49, 48, 48>>),
     takerFeeAssetData |-> Str(<<48, 120>>),
     takerFee |-> Str(<<48>>),
     senderAddress |-> Str(<<48, 120, 48, 48>>),
     feeRecipientAddress |-> Str(<<48, 120, 48, 100>>),
     expirationTimeSeconds |-> Str(<<49, 53, 57>>),
     salt |-> Str(<<49, 53, 56>>),
     signature |-> Str(<<48, 120, 49, 99>>),
     hash |-> hash,
     remainingFillableTakerAssetAmount |-> Str(<<49, 48, 48>>)]

ShortOrders == {shortOrder(h, m) : h \in Hashes, m \in Amounts}

SeqsUpTo(S, n) == UNION {[1..k -> S] : k \in 0..n}

Stores ==
    {s \in SeqsUpTo(ShortOrders, MaxStore) :
        \A i, j \in 1..Len(s) : i # j => s[i].hash # s[j].hash}

------------------------------------------------------------------------------
(* Requests. *)

\* order(hash): the hashes of the short stores and of mockOrders, and one
\* that no order has.
OrderArgs ==
    {[hash |-> h] :
        h \in Hashes \cup {HashNone} \cup {mockOrders[i].hash : i \in 1..Len(mockOrders)}}

\* The fields, of each stored type, that the requests of the model name.
FilterFields == {"hash", "chainId", "makerAssetAmount"}
SortFields == {"hash", "makerAssetAmount"}

\* The filter values: strings and numbers, FilterValue being number | string.
FilterValues == {Amount9, Amount10, Num(1), Num(10), HashA}

OrderFilter ==
    [field : FilterFields, kind : FilterKind \cup {NullEnum}, value : FilterValues]

OrderSort == [field : SortFields, direction : SortDirection \cup {NullEnum}]

\* The filters the longer filter lists are made of.
ListedFilters ==
    {[field |-> "makerAssetAmount", kind |-> "GREATER_OR_EQUAL", value |-> Amount10],
     [field |-> "makerAssetAmount", kind |-> "NOT_EQUAL", value |-> Amount9],
     [field |-> "hash", kind |-> "NOT_EQUAL", value |-> HashA],
     [field |-> "chainId", kind |-> "EQUAL", value |-> Num(1)],
     [field |-> "hash", kind |-> NullEnum, value |-> HashA]}

\* sort: [OrderSort!] = [{ field: hash, direction: ASC }]
DefaultSort == <<[field |-> "hash", direction |-> "ASC"]>>

\* limit: Int = 20
DefaultLimit == 20

\* A filter of an unexpected kind.
BadFilter == [field |-> "hash", kind |-> NullEnum, value |-> HashA]

\* Names that are no OrderField: a field every order has, and one none has.
OutsideFields == {"signature", "nonexistent"}

\* orders(sort, filters, limit): one filter of any field, kind and value; up
\* to MaxFilters listed filters, with limit 0 too; up to MaxSorts sorts with
\* every limit; a filter of an unexpected kind with every sort; the schema's
\* defaults; the filter hash = value with every sort list; a filter or a sort
\* of a field outside OrderField.
OrdersArgs ==
    [sort : {DefaultSort}, filters : {<<f>> : f \in OrderFilter}, limit : {MaxLimit}]
    \cup
    [sort : {<<>>, DefaultSort}, filters : SeqsUpTo(ListedFilters, MaxFilters),
     limit : {0, MaxLimit}]
    \cup
    [sort : SeqsUpTo(OrderSort, MaxSorts),
     filters : {<<>>, <<[field |-> "hash", kind |-> "NOT_EQUAL", value |-> HashB]>>},
     limit : -1..MaxLimit]
    \cup
    [sort : {<<s>> : s \in OrderSort}, filters : {<<BadFilter>>}, limit : {MaxLimit}]
    \cup
    [sort : {<<>>, DefaultSort}, filters : {<<>>}, limit : {DefaultLimit}]
    \cup
    [sort : SeqsUpTo(OrderSort, MaxSorts),
     filters : {<<[field |-> "hash", kind |-> "EQUAL", value |-> HashA]>>},
     limit : {1, MaxLimit}]
    \cup
    [sort : {DefaultSort},
     filters : {<<[field |-> f, kind |-> k, value |-> HashA]>> :
                    f \in OutsideFields, k \in {"EQUAL", "NOT_EQUAL", NullEnum}},
     limit : {MaxLimit}]
    \cup
    [sort : {<<[field |-> f, direction |-> d]>> :
                 f \in OutsideFields, d \in SortDirection \cup {NullEnum}},
     filters : {<<>>}, limit : {MaxLimit}]

\* A NewOrder: the 17 fields of the input type.
newOrder(makerAssetAmount) ==
    LET order == shortOrder(HashA, makerAssetAmount)
    IN  [f \in DOMAIN order \ {"hash", "remainingFillableTakerAssetAmount"} |-> order[f]]

\* "200000": a takerAssetAmount above the "100" of the other orders.
Amount200000 == Str(<<50, 48, 48, 48, 48, 48>>)

NewOrder ==
    {newOrder(m) : m \in Amounts}
    \cup {[newOrder(Amount10) EXCEPT !.takerAssetAmount = Amount200000]}

\* addOrders(orders)
AddOrdersArgs == [orders : SeqsUpTo(NewOrder, MaxOrders)]

-------------------------------------------------------------------------------------------------------------------------------------------------------
(* The server.  Node runs a resolver to completion before it takes the   *)
(* next request: a request arrives when the server is idle, its resolver    *)
(* computes the response from the store alone, and the response is sent.    *)

NoRequest == [op |-> "none"]
NoResponse == [status |-> "none", value |-> <<>>, message |-> <<>>]

Init ==
    /\ store \in Stores
    /\ request = NoRequest
    /\ response = NoResponse

InitMock ==
    /\ store = mockOrders
    /\ request = NoRequest
    /\ response = NoResponse

\* Query.order
Order ==
    /\ request.op = "none"
    /\ \E args \in OrderArgs :
        /\ request' = [op |-> "order", args |-> args]
        /\ response' = orderResolver(args, store)
    /\ UNCHANGED store

\* Query.orders that sorts mockOrders in place.
Orders_sortsInPlace ==
    /\ request.op = "none"
    /\ \E args \in OrdersArgs :
        /\ request' = [op |-> "orders", args |-> args]
        /\ response' = Query_orders(args, store)
        /\ store' = IF response'.status = "ok" THEN sortWith(args.sort, store) ELSE store

\* Query.orders
Orders ==
    /\ request.op = "none"
    /\ \E args \in OrdersArgs :
        /\ request' = [op |-> "orders", args |-> args]
        /\ response' = Query_orders(args, store)
    /\ UNCHANGED store

\* Query.stats
Stats ==
    /\ request.op = "none"
    /\ request' = [op |-> "stats"]
    /\ response' = Ok(statsResolver)
    /\ UNCHANGED store

\* Mutation.addOrders
AddOrders ==
    /\ request.op = "none"
    /\ \E args \in AddOrdersArgs :
        /\ request' = [op |-> "addOrders", args |-> args]
        /\ response' = Ok(addOrdersResolver(args))
    /\ UNCHANGED store

\* A server that a query's error brings down.
Reply_crashOnError ==
    /\ request.op # "none"
    /\ response.status # "error"
    /\ request' = NoRequest
    /\ response' = NoResponse
    /\ UNCHANGED store

\* The response goes out and the server is idle again.
Reply ==
    /\ request.op # "none"
    /\ request' = NoRequest
    /\ response' = NoResponse
    /\ UNCHANGED store

Next == Order \/ Orders \/ Stats \/ AddOrders \/ Reply

Spec == Init /\ [][Next]_vars

SpecMock == InitMock /\ [][Next]_vars

-------------------------------------------------------------------------------
(* Requests in flight at the same time.  Node runs each resolver call to    *)
(* its end before it turns to another event, so the requests of several     *)
(* clients interleave between the calls: a request arrives, its resolver    *)
(* runs on the store, its response is sent.  In SpecConcurrent request and  *)
(* response hold one request and one response for each client.             *)

Clients == 1..NumClients

\* The resolver map handed to ApolloServer.
resolvers(req, orders) ==
    CASE req.op = "order" -> orderResolver(req.args, orders)
      [] req.op = "orders" -> Query_orders(req.args, orders)
      [] req.op = "stats" -> Ok(statsResolver)
      [] req.op = "addOrders" -> Ok(addOrdersResolver(req.args))

\* The requests of the clients: a lookup, a sorted and an unsorted orders
\* query, one that fails, stats and addOrders.
ClientRequests ==
    {[op |-> "order", args |-> [hash |-> HashA]],
     [op |-> "orders",
      args |-> [sort |-> <<[field |-> "hash", direction |-> "DESC"]>>,
                filters |-> <<>>, limit |-> DefaultLimit]],
     [op |-> "orders", args |-> [sort |-> <<>>, filters |-> <<>>, limit |-> DefaultLimit]],
     [op |-> "orders",
      args |-> [sort |-> DefaultSort, filters |-> <<BadFilter>>, limit |-> DefaultLimit]],
     [op |-> "stats"],
     [op |-> "addOrders", args |-> [orders |-> <<newOrder(Amount9)>>]]}

InitConcurrent ==
    /\ store \in Stores
    /\ request = [c \in Clients |-> NoRequest]
    /\ response = [c \in Clients |-> NoResponse]

\* The request of client c arrives.
Receive(c) ==
    /\ request[c].op = "none"
    /\ \E req \in ClientRequests : request' = [request EXCEPT ![c] = req]
    /\ UNCHANGED <<store, response>>

\* A resolver call that sorts mockOrders in place.
Resolve_sortsInPlace(c) ==
    /\ request[c].op # "none"
    /\ response[c].status = "none"
    /\ response' = [response EXCEPT ![c] = resolvers(request[c], store)]
    /\ store' = IF request[c].op = "orders" /\ response'[c].status = "ok"
                THEN sortWith(request[c].args.sort, store)
                ELSE store
    /\ UNCHANGED request

\* The resolver of the request of client c runs, from its first statement
\* to its return.
Resolve(c) ==
    /\ request[c].op # "none"
    /\ response[c].status = "none"
    /\ response' = [response EXCEPT ![c] = resolvers(request[c], store)]
    /\ UNCHANGED <<store, request>>

\* The response of client c goes out.
Send(c) ==
    /\ response[c].status # "none"
    /\ request' = [request EXCEPT ![c] = NoRequest]
    /\ response' = [response EXCEPT ![c] = NoResponse]
    /\ UNCHANGED store

NextConcurrent == \E c \in Clients : Receive(c) \/ Resolve(c) \/ Send(c)

SpecConcurrent == InitConcurrent /\ [][NextConcurrent]_vars

------------------------------------------------------------------------------
(* What the properties below speak about. *)

Range(s) == {s[i] : i \in 1..Len(s)}

\* An orders request that was answered with a list.
OrdersAnswered == request.op = "orders" /\ response.status = "ok"

\* The position of a stored order (stored orders differ in their hash).
StoreIndex(order) == CHOOSE i \in 1..Len(store) : store[i] = order

\* s stands before u in code-unit order.
LexBefore(s, u) ==
    \E k \in 1..Len(u) :
        /\ \A j \in 1..(k - 1) : j <= Len(s) /\ s[j] = u[j]
        /\ k = Len(s) + 1 \/ (k <= Len(s) /\ s[k] < u[k])

\* The order of two JS values: two strings by code units, any other pair by
\* their numbers, and none ("unordered") when one of them is no number.
Compare3(x, y) ==
    IF x.t = "string" /\ y.t = "string"
    THEN IF LexBefore(x.v, y.v) THEN "lt"
         ELSE IF LexBefore(y.v, x.v) THEN "gt" ELSE "eq"
    ELSE IF ToNumber(x).nan \/ ToNumber(y).nan THEN "unordered"
    ELSE IF ToNumber(x).n < ToNumber(y).n THEN "lt"
    ELSE IF ToNumber(x).n > ToNumber(y).n THEN "gt" ELSE "eq"

\* What each filter kind asks of order[field] and the filter value.
KindHolds(kind, x, v) ==
    CASE kind = "EQUAL" -> x = v
      [] kind = "NOT_EQUAL" -> x # v
      [] kind = "GREATER" -> Compare3(x, v) = "gt"
      [] kind = "GREATER_OR_EQUAL" -> Compare3(x, v) \in {"gt", "eq"}
      [] kind = "LESS" -> Compare3(x, v) = "lt"
      [] kind = "LESS_OR_EQUAL" -> Compare3(x, v) \in {"lt", "eq"}

\* The fields that hold a number: chainId as a JS number, the others as
\* decimal strings.
NumericFields ==
    {"makerAssetAmount", "takerAssetAmount", "makerFee", "takerFee", "salt",
     "expirationTimeSeconds", "remainingFillableTakerAssetAmount", "chainId"}

\* The number a numeric field or a decimal filter value stands for.
NumberOf(x) == ToNumber(x).n

IsDecimal(x) == x.t = "string" /\ x.v # <<>> /\ \A i \in 1..Len(x.v) : IsDecDigit(x.v[i])

\* The stored orders that pass every filter of the request.
Matching == {o \in Range(store) : \A k \in 1..Len(request.args.filters) :
                                      filterPredicate(request.args.filters[k], o)}

------------------------------------------------------------------------------
(* Properties of orders and order. *)

\* C1: with recognized filter kinds and a limit at least the length of the
\* store, orders returns exactly the stored orders that satisfy every filter
\* of the list, each once; with no filter it returns every stored order.
C1_FilterConjunction ==
    (OrdersAnswered /\ request.args.limit >= Len(store)) =>
        /\ Range(response.value) = Matching
        /\ Len(response.value) = Cardinality(Matching)
        /\ request.args.filters = <<>> => Range(response.value) = Range(store)

\* C1 witness: a list of two filters answered with some orders, where a
\* stored order passes the first filter and fails the second.
C1_Witness ==
    /\ OrdersAnswered
    /\ request.args.limit >= Len(store)
    /\ Len(request.args.filters) = 2
    /\ response.value # <<>>
    /\ \E o \in Range(store) :
        /\ filterPredicate(request.args.filters[1], o)
        /\ ~filterPredicate(request.args.filters[2], o)

\* C2: a single filter (field, kind, value) accepts an order exactly when
\* EQUAL: order[field] = value; NOT_EQUAL: order[field] # value; GREATER,
\* GREATER_OR_EQUAL, LESS, LESS_OR_EQUAL: order[field] is greater than,
\* at least, less than, at most the value.
C2_FilterKinds ==
    (OrdersAnswered /\ Len(request.args.filters) = 1
                    /\ request.args.limit >= Len(store)) =>
        LET f == request.args.filters[1]
        IN  \A o \in Range(store) :
                o \in Range(response.value) <=> KindHolds(f.kind, o[f.field], f.value)

\* C2 witness: a single GREATER filter that accepts one stored order and
\* rejects another.
C2_Witness ==
    /\ OrdersAnswered
    /\ Len(request.args.filters) = 1
    /\ request.args.filters[1].kind = "GREATER"
    /\ request.args.limit >= Len(store)
    /\ response.value # <<>>
    /\ Len(response.value) < Len(store)

\* C3: on a numeric field, GREATER, GREATER_OR_EQUAL, LESS and LESS_OR_EQUAL
\* compare the field and a decimal filter value as integers: an order with
\* amount "10" is accepted by (field, GREATER, "9") and rejected by
\* (field, LESS, "9").
C3_NumericFilters ==
    (OrdersAnswered /\ Len(request.args.filters) = 1
                    /\ request.args.limit >= Len(store)) =>
        LET f == request.args.filters[1]
        IN  (f.field \in NumericFields /\ IsDecimal(f.value)) =>
                \A o \in Range(store) :
                    /\ f.kind = "GREATER" =>
                        (o \in Range(response.value) <=> NumberOf(o[f.field]) > NumberOf(f.value))
                    /\ f.kind = "GREATER_OR_EQUAL" =>
                        (o \in Range(response.value) <=> NumberOf(o[f.field]) >= NumberOf(f.value))
                    /\ f.kind = "LESS" =>
                        (o \in Range(response.value) <=> NumberOf(o[f.field]) < NumberOf(f.value))
                    /\ f.kind = "LESS_OR_EQUAL" =>
                        (o \in Range(response.value) <=> NumberOf(o[f.field]) <= NumberOf(f.value))

\* C4: with a limit of at least 0, orders truncates after filtering and
\* sorting: the result is sorted, holds only matching orders, and no matching
\* order that is left out compares smaller than a returned one.
C4_TruncateAfterSort ==
    (OrdersAnswered /\ request.args.limit >= 0) =>
        LET result == response.value
            compare(a, b) == sortWithComparator(request.args.sort, a, b)
        IN  /\ Range(result) \subseteq Matching
            /\ \A i, j \in 1..Len(result) : i < j => compare(result[i], result[j]) <= 0
            /\ \A o \in Matching \ Range(result) :
                   \A q \in Range(result) : compare(q, o) <= 0

\* C4 witness: a truncated result, where an order that is left out compares
\* greater than a returned one and stands before it in the store.
C4_Witness ==
    /\ OrdersAnswered
    /\ request.args.limit >= 1
    /\ \E o \in Matching \ Range(response.value) :
          \E q \in Range(response.value) :
              /\ sortWithComparator(request.args.sort, q, o) < 0
              /\ StoreIndex(o) < StoreIndex(q)

\* C5: the result is ordered by the first sort, ties on its field by the
\* second, and so on: the first sort on whose field two adjacent returned
\* orders differ puts the first of them before the second.
C5_SortPriority ==
    OrdersAnswered =>
        LET result == response.value
            sort == request.args.sort
        IN  \A i \in 1..(Len(result) - 1) :
                \A k \in 1..Len(sort) :
                    (/\ result[i][sort[k].field] # result[i + 1][sort[k].field]
                     /\ \A j \in 1..(k - 1) :
                            result[i][sort[j].field] = result[i + 1][sort[j].field])
                    => Compare3(result[i][sort[k].field], result[i + 1][sort[k].field])
                           = (IF sort[k].direction = "ASC" THEN "lt" ELSE "gt")

\* C5 witness: two sorts, and two adjacent returned orders that tie on the
\* field of the first and differ on the field of the second.
C5_Witness ==
    /\ OrdersAnswered
    /\ Len(request.args.sort) = 2
    /\ request.args.sort[1].field # request.args.sort[2].field
    /\ \E i \in 1..(Len(response.value) - 1) :
          /\ response.value[i][request.args.sort[1].field]
                = response.value[i + 1][request.args.sort[1].field]
          /\ response.value[i][request.args.sort[2].field]
                # response.value[i + 1][request.args.sort[2].field]

\* C6: sorting by a numeric field ASC returns the orders in non-decreasing
\* numeric value of the field, DESC in non-increasing numeric value.
C6_NumericSort ==
    (OrdersAnswered /\ Len(request.args.sort) = 1
                    /\ request.args.sort[1].field \in NumericFields) =>
        LET result == response.value
            s == request.args.sort[1]
        IN  \A i, j \in 1..Len(result) :
                i < j => IF s.direction = "ASC"
                         THEN NumberOf(result[i][s.field]) <= NumberOf(result[j][s.field])
                         ELSE NumberOf(result[i][s.field]) >= NumberOf(result[j][s.field])

\* C7: the sort is stable: two returned orders that tie on the field of every
\* sort stand in the result in their order in the store; with no sort at all
\* the result is in store order.
C7_StableSort ==
    OrdersAnswered =>
        LET result == response.value
            sort == request.args.sort
        IN  \A i, j \in 1..Len(result) :
                (/\ i < j
                 /\ result[i] \in Range(store)
                 /\ result[j] \in Range(store)
                 /\ \A k \in 1..Len(sort) :
                        Compare3(result[i][sort[k].field], result[j][sort[k].field]) = "eq")
                => StoreIndex(result[i]) < StoreIndex(result[j])

\* C7 witness: a sorted result of three orders in which the first and the
\* last tie with each other on the sort field and not with the one between
\* them in the store.
C7_Witness ==
    /\ OrdersAnswered
    /\ Len(request.args.sort) = 1
    /\ Len(response.value) = 3
    /\ \E i, j \in 1..3 :
          /\ i < j
          /\ response.value[i][request.args.sort[1].field]
                = response.value[j][request.args.sort[1].field]
          /\ StoreIndex(response.value[j]) = 3
          /\ StoreIndex(response.value[i]) = 1
          /\ store[2][request.args.sort[1].field] # store[1][request.args.sort[1].field]

\* C8: with a limit of at least 0, orders returns min(limit, number of
\* matching orders) orders: none for limit 0, every matching order for a
\* limit above their number.
C8_LimitCount ==
    (OrdersAnswered /\ request.args.limit >= 0) =>
        Len(response.value) = Min(request.args.limit, Cardinality(Matching))

\* C8 witness: a limit of at least 1 below the number of matching orders.
C8_Witness ==
    /\ OrdersAnswered
    /\ request.args.limit >= 1
    /\ request.args.limit < Cardinality(Matching)
    /\ Len(response.value) = request.args.limit

\* C9: with a negative limit orders returns the empty list.
C9_NegativeLimitEmpty ==
    (OrdersAnswered /\ request.args.limit < 0) => response.value = <<>>

\* C10: the store holds at most one order of each hash, order(hash) returns
\* that order when there is one, and the orders it returns for two different
\* stored hashes differ (it returns as many orders as the store has hashes).
C10_PointLookup ==
    /\ \A i, j \in 1..Len(store) : store[i].hash = store[j].hash => i = j
    /\ (request.op = "order" /\ response.status = "ok") =>
           \A i \in 1..Len(store) :
               store[i].hash = request.args.hash => response.value = store[i]
    /\ Cardinality({orderResolver([hash |-> store[i].hash], store).value :
                        i \in 1..Len(store)}) = Len(store)

\* C10 witness: order(hash) answered with the stored order of that hash, which
\* is not the first of the store.
C10_Witness ==
    /\ request.op = "order"
    /\ \E i \in 2..Len(store) :
          store[i].hash = request.args.hash /\ response.value = store[i]

\* C11: for a hash that no stored order has, order(hash) returns undefined
\* (null in the response) and raises no error.
C11_AbsentIsNotAnError ==
    (request.op = "order" /\ \A i \in 1..Len(store) : store[i].hash # request.args.hash) =>
        response.status = "ok" /\ response.value = Undefined

\* C11 witness: order(hash) on a store of three orders, none of that hash.
C11_Witness ==
    /\ request.op = "order"
    /\ Len(store) = 3
    /\ \A i \in 1..Len(store) : store[i].hash # request.args.hash
    /\ response.value = Undefined

\* The request is an orders query that fits the schema, so that
\* ordersResolver is called with its arguments.
OrdersResolved == request.op = "orders" /\ firstBadField(request.args) = ""

\* The filters and sorts of the request that no case of the switches
\* recognizes.
BadFilters ==
    {k \in 1..Len(request.args.filters) : request.args.filters[k].kind \notin FilterKind}

BadSorts ==
    {k \in 1..Len(request.args.sort) : request.args.sort[k].direction \notin SortDirection}

\* C12: an orders request with a filter of an unrecognized kind fails as a
\* whole, with an error that names the kind, and returns no order, wherever
\* the filter stands in the list and whatever the limit and the store.
C12_BadKindFails ==
    (OrdersResolved /\ BadFilters # {}) =>
        /\ response.status = "error"
        /\ response.value = <<>>
        /\ \E k \in BadFilters :
               response.message = <<"unexpected filter kind", request.args.filters[k].kind>>

\* C12 witness: limit 0, and the filter of an unrecognized kind stands second,
\* behind a filter that rejects every order of a store that is not empty.
C12_Witness ==
    /\ OrdersResolved
    /\ request.args.limit = 0
    /\ Len(request.args.filters) = 2
    /\ BadFilters = {2}
    /\ store # <<>>
    /\ \A o \in Range(store) : ~filterPredicate(request.args.filters[1], o)
    /\ response.status = "error"

\* C13 as stated: an orders request with a sort of an unrecognized direction
\* fails with an error that names the direction and returns no order.
C13_BadDirectionNamed ==
    (OrdersResolved /\ BadSorts # {}) =>
        /\ response.status = "error"
        /\ response.value = <<>>
        /\ \E k \in BadSorts :
               response.message
                   = <<"unexpected sort direction", request.args.sort[k].direction>>

\* C13 as amended: an orders request with a sort of an unrecognized direction
\* fails as a whole and returns no order, wherever the sort stands in the list
\* and however few orders match; the error names the direction when every
\* filter kind of the request is recognized, and the filter kind otherwise.
C13_BadDirectionFails ==
    (OrdersResolved /\ BadSorts # {}) =>
        /\ response.status = "error"
        /\ response.value = <<>>
        /\ IF BadFilters = {}
           THEN \E k \in BadSorts :
                    response.message
                        = <<"unexpected sort direction", request.args.sort[k].direction>>
           ELSE response.message[1] = "unexpected filter kind"

\* C13 witness: the sort of an unrecognized direction stands second in the
\* list and at most one order matches, so that no comparison is made.
C13_Witness ==
    /\ OrdersResolved
    /\ Len(request.args.sort) = 2
    /\ BadSorts = {2}
    /\ BadFilters = {}
    /\ Cardinality(Matching) <= 1
    /\ response.status = "error"
    /\ response.message[1] = "unexpected sort direction"

\* C14: an orders query with a filter or a sort of a field outside OrderField
\* is rejected as a whole: the response is an error about that field and
\* carries no list of orders, whatever the kind or direction that goes with
\* the field and whether or not the orders have the field.
C14_OutsideFieldRejected ==
    (request.op = "orders" /\ firstBadField(request.args) # "") =>
        /\ response.status = "error"
        /\ response.value = <<>>
        /\ response.message
               = <<"value does not exist in OrderField enum", firstBadField(request.args)>>

\* C14 witness: a filter signature = value, the field of every order in a
\* store of three, is rejected.
C14_Witness ==
    /\ request.op = "orders"
    /\ Len(store) = 3
    /\ \A o \in Range(store) : "signature" \in DOMAIN o
    /\ Len(request.args.filters) = 1
    /\ request.args.filters[1].field = "signature"
    /\ request.args.filters[1].kind = "NOT_EQUAL"
    /\ response.status = "error"

\* C15: on mockOrders, orders with no filter and limit 20 returns the first
\* 20 orders of the store in store order, with the sort by hash ASC that the
\* schema declares as the default and with an empty sort list alike, and the
\* hashes of that result ascend.
C15_DefaultsOnMockOrders ==
    (/\ OrdersAnswered
     /\ request.args.filters = <<>>
     /\ request.args.limit = DefaultLimit
     /\ request.args.sort \in {<<>>, DefaultSort}) =>
        /\ response.value = SubSeq(mockOrders, 1, DefaultLimit)
        /\ \A i \in 1..(Len(response.value) - 1) :
               LexBefore(response.value[i].hash.v, response.value[i + 1].hash.v)

\* C15 witness: the declared defaults answered with 20 of the 40 orders.
C15_Witness ==
    /\ OrdersAnswered
    /\ store = mockOrders
    /\ Len(store) = 40
    /\ request.args = [sort |-> DefaultSort, filters |-> <<>>, limit |-> DefaultLimit]
    /\ Len(response.value) = 20

C17_StoreUnchanged == [][store' = store]_vars

\* C17 witness: orders has answered with the three stored orders in another
\* order than the store's, and the store still has its own.
C17_Witness ==
    /\ OrdersAnswered
    /\ Len(store) = 3
    /\ Range(response.value) = Range(store)
    /\ response.value # store
    /\ request.args.sort # <<>>

\* The response of the request alone on the store.
Alone(req) == resolvers(req, store)

\* C18: however the requests of the clients interleave, each answered request
\* has the response it has when it runs alone on the store, and two answered
\* requests with equal arguments have equal responses.
C18_Pure ==
    /\ \A c \in Clients :
           response[c].status # "none" => response[c] = Alone(request[c])
    /\ \A c, d \in Clients :
           (/\ response[c].status # "none"
            /\ response[d].status # "none"
            /\ request[c] = request[d]) => response[c] = response[d]

\* C18 witness: two clients are answered at the same time, one an orders
\* query that sorts the three stored orders into another order, the other
\* the orders query that returns them in store order.
C18_Witness ==
    /\ Len(store) = 3
    /\ \E c, d \in Clients :
           /\ c # d
           /\ request[c].op = "orders"
           /\ request[c].args.sort # <<>>
           /\ response[c].status = "ok"
           /\ response[c].value # store
           /\ request[d].op = "orders"
           /\ request[d].args.sort = <<>>
           /\ response[d].status = "ok"
           /\ response[d].value = store

\* C19: a failing orders query fails alone.  Its step starts at the idle
\* server and leaves the store as it is; the failure response can always be
\* sent, and sending it brings the server back to the idle state the query
\* found, with the same store, from where every later request is answered as
\* if the failed query had never been issued.
C19_FailureIsLocal ==
    /\ [](response.status = "error" => ENABLED Reply)
    /\ [][response'.status = "error" =>
              (request = NoRequest /\ response = NoResponse /\ store' = store)]_vars
    /\ [][response.status = "error" =>
              (request' = NoRequest /\ response' = NoResponse /\ store' = store)]_vars

\* C19 witness: an orders query on three stored orders has failed over a
\* filter kind, and the server has its failure response to send.
C19_Witness ==
    /\ request.op = "orders"
    /\ Len(store) = 3
    /\ BadFilters # {}
    /\ response.status = "error"
    /\ response.message[1] = "unexpected filter kind"

\* C20: addOrders partitions the orders it is given: each of them is the
\* order of exactly one result, accepted or rejected, so that the two lists
\* together are as long as the input.
C20_Partition ==
    request.op = "addOrders" =>
        LET orders == request.args.orders
            accepted == response.value.accepted
            rejected == response.value.rejected
            submitted(result) ==
                [f \in DOMAIN result.order
                        \ {"hash", "remainingFillableTakerAssetAmount"} |-> result.order[f]]
        IN  /\ Len(accepted) + Len(rejected) = Len(orders)
            /\ \A i \in 1..Len(orders) :
                   \/ i <= Len(accepted) /\ submitted(accepted[i]) = orders[i]
                   \/ /\ i > Len(accepted)
                      /\ rejected[i - Len(accepted)].order = orders[i]

-------------------------------------------------------------------------------
(* Properties of addOrders. *)

\* A decimal string without its leading zeros.
Stripped(s) ==
    IF \A i \in 1..Len(s) : s[i] = 48 THEN <<>>
    ELSE SubSeq(s, CHOOSE i \in 1..Len(s) : s[i] # 48 /\ \A j \in 1..(i - 1) : s[j] = 48,
                Len(s))

\* x <= y for two decimal strings of any length, as integers.
DecimalAtMost(x, y) ==
    LET a == Stripped(x.v)
        b == Stripped(y.v)
    IN  \/ Len(a) < Len(b)
        \/ Len(a) = Len(b) /\ (a = b \/ LexBefore(a, b))

\* 0 <= remainingFillableTakerAssetAmount <= takerAssetAmount
RemainingWithinTaker(order) ==
    /\ IsDecimal(order.remainingFillableTakerAssetAmount)
    /\ IsDecimal(order.takerAssetAmount)
    /\ DecimalAtMost(order.remainingFillableTakerAssetAmount, order.takerAssetAmount)

\* An addOrders request that was answered.
AddOrdersAnswered == request.op = "addOrders" /\ response.status = "ok"

\* C21: every stored order, and every order of the accepted list of
\* addOrders, has 0 <= remainingFillableTakerAssetAmount <= takerAssetAmount
\* as integers.
C21_RemainingWithinTaker ==
    /\ \A o \in Range(store) : RemainingWithinTaker(o)
    /\ AddOrdersAnswered =>
           \A i \in 1..Len(response.value.accepted) :
               RemainingWithinTaker(response.value.accepted[i].order)

\* The order that was submitted, of an accepted order: its fields but the two
\* that addOrders adds.
Submitted(order) ==
    [f \in DOMAIN order \ {"hash", "remainingFillableTakerAssetAmount"} |-> order[f]]

\* The entries of the response of addOrders, accepted and rejected, each as
\* the submitted order and the hash it is given.
Entries ==
    {[order |-> Submitted(response.value.accepted[i].order),
      hash |-> response.value.accepted[i].order.hash] :
         i \in 1..Len(response.value.accepted)}
    \cup
    {[order |-> response.value.rejected[i].order, hash |-> response.value.rejected[i].hash] :
         i \in 1..Len(response.value.rejected)}

\* C22: the hash identifies the order: two entries of addOrders that carry
\* different orders carry different hashes.
C22_HashIdentifiesOrder ==
    AddOrdersAnswered =>
        \A e1, e2 \in Entries : e1.order # e2.order => e1.hash # e2.hash

\* C23: isNew is true for the first call that accepts an order and false for
\* a later one.  Of two answered addOrders calls that accepted the same order
\* one ran before the other, so they cannot both say isNew.
C23_IsNewOnce ==
    \A c, d \in Clients :
        (/\ c # d
         /\ request[c].op = "addOrders"
         /\ request[d].op = "addOrders"
         /\ response[c].status = "ok"
         /\ response[d].status = "ok"
         /\ response[c].value.accepted # <<>>
         /\ response[d].value.accepted # <<>>
         /\ Submitted(response[c].value.accepted[1].order)
                = Submitted(response[d].value.accepted[1].order)) =>
            ~(response[c].value.accepted[1].isNew /\ response[d].value.accepted[1].isNew)

-------------------------------------------------------------------------------
(* Relations between queries. *)

Reverse(s) == [i \in 1..Len(s) |-> s[Len(s) + 1 - i]]

\* The response to the request with another sort list, on the same store.
WithSort(sort) == Query_orders([request.args EXCEPT !.sort = sort], store)

\* C24: on every field and every two stored orders the DESC comparator
\* returns the negation of the ASC comparator, each of them -1, 0 or 1; and
\* when the matching orders differ pairwise in a field and the limit lets
\* them all through, orders sorted by the field DESC is the reverse of orders
\* sorted by the field ASC.
C24_DescendReversesAscend ==
    /\ \A field \in OrderField : \A a, b \in Range(store) :
           /\ ascend(field, a, b) \in {-1, 0, 1}
           /\ descend(field, a, b) = 0 - ascend(field, a, b)
    /\ (/\ OrdersAnswered
        /\ Len(request.args.sort) = 1
        /\ request.args.sort[1].direction = "DESC"
        /\ request.args.limit >= Cardinality(Matching)
        /\ \A a, b \in Matching :
               a # b => a[request.args.sort[1].field] # b[request.args.sort[1].field]) =>
           response.value
               = Reverse(WithSort(<<[field |-> request.args.sort[1].field,
                                     direction |-> "ASC"]>>).value)

\* C24 witness: three stored orders sorted by hash DESC into another order
\* than the store's.
C24_Witness ==
    /\ OrdersAnswered
    /\ request.args.sort = <<[field |-> "hash", direction |-> "DESC"]>>
    /\ request.args.limit >= 3
    /\ Len(response.value) = 3
    /\ response.value # store
    /\ response.value # Reverse(store)

\* The response to the request with another filter list, on the same store.
WithFilters(filters) == Query_orders([request.args EXCEPT !.filters = filters], store)

\* The filter lists that are the request's list permuted, or with one of its
\* filters repeated at the end or at the front.
Rearranged(filters) ==
    {[i \in 1..Len(filters) |-> filters[p[i]]] : p \in Permutations(1..Len(filters))}
    \cup {Append(filters, filters[k]) : k \in 1..Len(filters)}
    \cup {<<filters[k]>> \o filters : k \in 1..Len(filters)}

\* C25: orders returns the same result sequence, or fails all the same, when
\* the filter list is permuted or one of its filters is repeated, for the
\* sort list, the limit and the store of the request.
C25_FiltersAsASet ==
    (request.op = "orders" /\ firstBadField(request.args) = "") =>
        \A filters \in Rearranged(request.args.filters) :
            /\ WithFilters(filters).status = response.status
            /\ WithFilters(filters).value = response.value

\* C25 witness: two different filters, one that rejects the first stored
\* order alone and one that rejects the last alone, so that the order of the
\* two could matter; one order is returned.
C25_Witness ==
    /\ OrdersAnswered
    /\ Len(store) = 3
    /\ Len(request.args.filters) = 2
    /\ ~filterPredicate(request.args.filters[1], store[1])
    /\ filterPredicate(request.args.filters[2], store[1])
    /\ filterPredicate(request.args.filters[1], store[3])
    /\ ~filterPredicate(request.args.filters[2], store[3])
    /\ Len(response.value) = 1

\* C26: orders with the one filter hash EQUAL h, a limit of at least 1 and
\* any sort list of recognized directions returns the one-element list of
\* order(h) when order(h) finds an order, and the empty list when it finds
\* none.
C26_LookupAgrees ==
    (/\ OrdersResolved
     /\ BadSorts = {}
     /\ request.args.limit >= 1
     /\ Len(request.args.filters) = 1
     /\ request.args.filters[1].field = "hash"
     /\ request.args.filters[1].kind = "EQUAL") =>
        LET found == orderResolver([hash |-> request.args.filters[1].value], store).value
        IN  /\ response.status = "ok"
            /\ response.value = IF found = Undefined THEN <<>> ELSE <<found>>

\* C26 witness: the hash is the one of the last of three stored orders, the
\* limit is 1 and the sort list has two sorts.
C26_Witness ==
    /\ OrdersAnswered
    /\ Len(store) = 3
    /\ request.args.limit = 1
    /\ Len(request.args.sort) = 2
    /\ request.args.filters = <<[field |-> "hash", kind |-> "EQUAL", value |-> store[3].hash]>>
    /\ response.value = <<store[3]>>

\* C27: every order that orders returns is a stored order, field by field,
\* and no stored order is returned twice, for every filter list, sort list
\* and limit, the negative ones too.
C27_ResultOfStoredOrders ==
    OrdersAnswered =>
        /\ \A i \in 1..Len(response.value) :
               \E k \in 1..Len(store) :
                   /\ DOMAIN response.value[i] = DOMAIN store[k]
                   /\ \A f \in DOMAIN store[k] : response.value[i][f] = store[k][f]
        /\ \A i, j \in 1..Len(response.value) :
               i # j => response.value[i].hash # response.value[j].hash
        /\ Len(response.value) <= Len(store)

\* C27 witness: a negative limit, a filter and a sort that returns two of
\* three stored orders in another order than the store's.
C27_Witness ==
    /\ OrdersAnswered
    /\ Len(store) = 3
    /\ request.args.limit < 0
    /\ request.args.filters # <<>>
    /\ request.args.sort # <<>>
    /\ Len(response.value) = 2
    /\ StoreIndex(response.value[1]) > StoreIndex(response.value[2])

\* The stored orders that the request's one filter accepts when it is given
\* another kind.
Accepted(kind) ==
    Range(WithFilters(<<[request.args.filters[1] EXCEPT !.kind = kind]>>).value)

\* C28: for every stored order, field and filter value, NOT_EQUAL accepts
\* exactly when EQUAL rejects, GREATER_OR_EQUAL exactly when GREATER or EQUAL
\* accepts, and LESS_OR_EQUAL exactly when LESS or EQUAL accepts.
C28_KindsCoherent ==
    (/\ OrdersAnswered
     /\ Len(request.args.filters) = 1
     /\ request.args.limit >= Len(store)) =>
        /\ Accepted("NOT_EQUAL") = Range(store) \ Accepted("EQUAL")
        /\ Accepted("GREATER_OR_EQUAL") = Accepted("GREATER") \cup Accepted("EQUAL")
        /\ Accepted("LESS_OR_EQUAL") = Accepted("LESS") \cup Accepted("EQUAL")

\* C29: a query with both a filter of an unrecognized kind and a sort of an
\* unrecognized direction fails with the error of the filter kind, the same
\* response as without any sort.
C29_FiltersBeforeSorts ==
    (OrdersResolved /\ BadFilters # {} /\ BadSorts # {}) =>
        /\ response.status = "error"
        /\ response.message[1] = "unexpected filter kind"
        /\ response = WithSort(<<>>)

\* C29 witness: a filter of an unrecognized kind and a sort of an
\* unrecognized direction on a store of three orders.
C29_Witness ==
    /\ OrdersResolved
    /\ Len(store) = 3
    /\ BadFilters = {1}
    /\ BadSorts = {1}
    /\ response.status = "error"

====
